---- MODULE Spec2Model ----
(***************************************************************************)
(* The n8n-processing job queue of the backend: the enqueue endpoints of   *)
(* src/routes/videos.js, the BullMQ worker of src/utils/queue.js with its  *)
(* three handlers (analysis, classify, filter) and the tables they write   *)
(* ("Comment", "Comment_summary", "Video").                                *)
(*                                                                         *)
(* Every await of a handler is one step of the model, so the handlers of   *)
(* the jobs that are active at the same time interleave at the awaits as   *)
(* they do on the Node.js event loop.  Each pool.query is one autocommit   *)
(* statement and is atomic, but for the UPDATE of the watermark: its NOW() *)
(* is the start time of the statement's transaction, read before the row   *)
(* is written, so that statement takes two steps.  Every external call     *)
(* (n8n webhook, YouTube comments API, database) either answers or throws. *)
(*                                                                         *)
(* Representation: a timestamp is a natural number (the column default     *)
(* '2000-01-01' is 0, NOW() is the clock `now`); positive_ratio is held in *)
(* tenths of a percent (625 stands for 62.5) and SQL NULL is NULL; the     *)
(* created_at/updated_at columns of "Comment" are not represented.         *)
(***************************************************************************)
EXTENDS Integers, Sequences, FiniteSets

\* ---------------------------------------------------------------- bounds
MaxJobs == 2          \* jobs enqueued in one behaviour of Spec
PoolJobs == 4         \* jobs enqueued in one behaviour of SpecPool
SoloJobs == 1         \* jobs enqueued in one behaviour of SpecFilter, SpecAnalysis
TwiceJobs == 2        \* jobs enqueued in one behaviour of SpecTwice
MaxResp == 2          \* comments in one n8n answer (SpecTwice, SpecFilter)
LiveJobs == 3         \* jobs enqueued in one behaviour of SpecLive
BurstJobs == 4        \* jobs enqueued in one behaviour of SpecBurst
EditJobs == 1         \* jobs enqueued in one behaviour of SpecComments
SummaryJobs == 2      \* jobs enqueued in one behaviour of SpecSummary
ApiJobs == 2          \* jobs enqueued in one behaviour of SpecApi
ShapeJobs == 2        \* jobs enqueued in one behaviour of SpecShapes
RegRequests == 2      \* registration requests in one behaviour of SpecOthers
Logins == 1           \* Google logins between two awaits at a time
MaxChannelSeq == 3    \* no login starts once the serial of "Channel" is here
PairJobs == 2         \* jobs enqueued in one behaviour of SpecPair
PairResp == 1         \* comments in one n8n answer (SpecPair)

\* ------------------------------------------------------ program constants
CONCURRENCY == 3
NULL == -1
DefaultClassifiedAt == 0

Videos == {"v1", "v2"}
CommentIds == {"c1", "c2"}
Keywords == {"k1"}
JobTypes == {"analysis", "classify", "filter"}

VARIABLES
  jobs,        \* the queue's jobs in the order of their ids: job.data
  jobState,    \* the queue's state of every job
  pc,          \* where the handler of every job stands
  local,       \* the local variables of every handler
  Comment,     \* rows of table "Comment" (a bag: row -> number of copies)
  Summary,     \* rows of table "Comment_summary"
  summarySeq,  \* the serial of "Comment_summary".id
  Video,       \* table "Video": id -> comment_classified_at
  now,         \* the database clock
  hist,        \* per job, what it has done so far (history, not program state)
  response,    \* the last HTTP response of a queue, summary or comment
               \* endpoint, with its request
  inflight,    \* the requests of these endpoints that stand between two
               \* awaits of their handler (a bag)
  Other_channel,  \* rows of table "Other_channel" (competitor registrations)
  otherSeq,       \* the serial of "Other_channel".id
  registering,    \* the POST /api/others requests: user, link, position, locals
  Channel,        \* rows of table "Channel"
  channelSeq      \* the serial of "Channel".id

vars == <<jobs, jobState, pc, local, Comment, Summary, summarySeq, Video, now, hist,
          response, inflight, Other_channel, otherSeq, registering, Channel, channelSeq>>
Others == <<Other_channel, otherSeq, registering, Channel, channelSeq>>
Api == <<response, inflight>>

JobIds == 1..Len(jobs)
Active == {j \in JobIds : jobState[j] = "active"}


\* ------------------------------------------------- the "Comment" table
\* The table is a bag of rows (row -> number of copies): the heap can hold
\* equal rows, it is the unique index that forbids them.
RECURSIVE SumCounts(_, _)
SumCounts(B, S) ==
  IF S = {} THEN 0
  ELSE LET r == CHOOSE x \in S : TRUE IN B[r] + SumCounts(B, S \ {r})

RowsOf(B) == {r \in DOMAIN B : B[r] > 0}
CommentRows == RowsOf(Comment)
CopiesOf(B, cid) == SumCounts(B, {r \in RowsOf(B) : r.youtube_comment_id = cid})

BagAdd(B, r) ==
  [x \in RowsOf(B) \cup {r} |-> IF x = r THEN SumCounts(B, RowsOf(B) \cap {r}) + 1 ELSE B[x]]
\* UPDATE ... SET f WHERE P
BagUpdate(B, P(_), f(_)) ==
  LET g(r) == IF P(r) THEN f(r) ELSE r
  IN [n \in {g(r) : r \in RowsOf(B)} |-> SumCounts(B, {r \in RowsOf(B) : g(r) = n})]

\* CREATE UNIQUE INDEX "Comment_youtube_comment_id_key" ON "Comment"("youtube_comment_id")
UniqueViolation(B, cid) == \E r \in RowsOf(B) : r.youtube_comment_id = cid

\* ------------------------------------------- the YouTube comments API
\* ytRes.data.items[0]?.snippet of a comment: c1 and c3 are top-level
\* comments, c2 is a reply to c1 whose author has no channel id.
Snippet(cid) ==
  IF cid = "c2"
    THEN [authorDisplayName |-> "bob", authorChannelId |-> "undefined",
          publishedAt |-> 2, parentId |-> "c1"]
    ELSE [authorDisplayName |-> "alice", authorChannelId |-> "UCa",
          publishedAt |-> 1, parentId |-> "undefined"]

\* meta of the classify loop (queue.js 122-128) and the values of the
\* filter insert (queue.js 254-264): item is the snippet, c the n8n entry
AuthorId(item) == IF item.authorChannelId = "undefined" THEN "null" ELSE item.authorChannelId
IsParent(item) == item.parentId = "undefined"

ClassifyValues(c, item, video_id) ==
  [youtube_comment_id |-> c.id, author_name |-> item.authorDisplayName,
   author_id |-> AuthorId(item), comment |-> c.text, comment_type |-> c.comment_type,
   comment_date |-> item.publishedAt, is_parent |-> IsParent(item),
   video_id |-> video_id, is_filtered |-> FALSE]

FilterValues(c, item, video_id) ==
  [youtube_comment_id |-> c.id, author_name |-> item.authorDisplayName,
   author_id |-> AuthorId(item), comment |-> c.text, comment_type |-> 0,
   comment_date |-> item.publishedAt, is_parent |-> IsParent(item),
   video_id |-> video_id, is_filtered |-> (c.is_filtered = 1)]

\* ------------------------------------------------------ SQL statements
\* (fault) the statement without its ON CONFLICT clause, on a table without
\* the unique index
UpsertComment_PlainInsert(B, row) == BagAdd(B, row)
\* (fault) the statement without is_filtered = EXCLUDED.is_filtered
UpsertComment_KeepFlag(B, row) ==
  IF UniqueViolation(B, row.youtube_comment_id)
    THEN BagUpdate(B, LAMBDA r : r.youtube_comment_id = row.youtube_comment_id,
                      LAMBDA r : [row EXCEPT !.is_filtered = r.is_filtered])
    ELSE BagAdd(B, row)
\* INSERT INTO "Comment" ... ON CONFLICT (youtube_comment_id) DO UPDATE SET ...
UpsertComment(B, row) ==
  IF UniqueViolation(B, row.youtube_comment_id)
    THEN BagUpdate(B, LAMBDA r : r.youtube_comment_id = row.youtube_comment_id,
                      LAMBDA r : row)
    ELSE BagAdd(B, row)

\* (fault) the table without "Comment_youtube_comment_id_key"
InsertThrows_NoIndex(B, row) == FALSE
\* INSERT INTO "Comment" ... RETURNING * (no ON CONFLICT): the unique index
\* makes the statement throw when the external id is already stored
InsertThrows(B, row) == UniqueViolation(B, row.youtube_comment_id)
InsertComment(B, row) == BagAdd(B, row)

\* (fault) the handler without its reset statement
ResetFiltered_Skipped(B, video_id) == B
\* UPDATE "Comment" SET is_filtered = false WHERE video_id = $1
ResetFiltered(B, video_id) ==
  BagUpdate(B, LAMBDA r : r.video_id = video_id,
               LAMBDA r : [r EXCEPT !.is_filtered = FALSE])

\* SELECT youtube_comment_id FROM "Comment" WHERE youtube_comment_id = $1 AND video_id = $2
ExistingComment(B, cid, video_id) ==
  {r \in RowsOf(B) : r.youtube_comment_id = cid /\ r.video_id = video_id}

\* (fault) an update that writes the row the insert would write
UpdateFiltered_Overwrite(B, isFiltered, cid, video_id) ==
  BagUpdate(B, LAMBDA r : r.youtube_comment_id = cid /\ r.video_id = video_id,
               LAMBDA r : [r EXCEPT !.is_filtered = isFiltered, !.comment_type = 0])
\* UPDATE "Comment" SET is_filtered = $1 WHERE youtube_comment_id = $2 AND video_id = $3
UpdateFiltered(B, isFiltered, cid, video_id) ==
  BagUpdate(B, LAMBDA r : r.youtube_comment_id = cid /\ r.video_id = video_id,
               LAMBDA r : [r EXCEPT !.is_filtered = isFiltered])

\* queue.js 25 computes in IEEE doubles: positive / length is rounded to 53
\* bits, the product with 1000 is rounded again, and Math.round takes the
\* nearest integer of the product, halves up.  The two roundings matter
\* only when 1000 * positive / length is k + 1/2 exactly: the product is
\* then k + 1/2 or the double next to it (201 / 400 * 1000 is
\* 502.49999999999994, which Math.round takes to 502).
RECURSIVE Pow2(_)
Pow2(e) == IF e = 0 THEN 1 ELSE 2 * Pow2(e - 1)
RECURSIVE Log2(_)
Log2(v) == IF v < 2 THEN 0 ELSE 1 + Log2(v \div 2)
\* the binary exponent of positive / length < 1: the doublings that take it
\* into [1, 2)
RECURSIVE Exponent(_, _)
Exponent(r, length) == IF r >= length THEN 0 ELSE 1 + Exponent(2 * r, length)
\* the remainder of the binary long division after `bits` more bits
RECURSIVE Remainder(_, _, _)
Remainder(r, length, bits) ==
  IF bits = 0 THEN r ELSE Remainder((2 * r) % length, length, bits - 1)
\* 1000 * positive / length is k + 1/2 for an integer k
ExactHalf(positive, length) ==
  (2000 * positive) % length = 0 /\ ((2000 * positive) \div length) % 2 = 1
\* for an exact half: is the double (positive / length) * 1000 below k + 1/2?
\* The quotient is q = (M + r / length) * 2^(-e - 52) with a mantissa M of 53
\* bits; it is rounded down when r / length < 1/2, and the product falls
\* to the double below k + 1/2 when the loss, 1000 * r / length units of the
\* quotient, is more than half the distance between the doubles there.
BelowHalf(positive, length) ==
  LET k == (1000 * positive) \div length
      e == Exponent(positive, length)
      r == Remainder(positive * Pow2(e) - length, length, 52)
      m == Log2(2 * k + 1) - 1
      gap == length * Pow2(m + e)
  IN /\ 2 * r < length
     /\ IF k = 0 THEN 4000 * r > gap ELSE 2000 * r > gap
\* (fault) Math.floor in the place of Math.round
MathRound_Floor(positive, length) == (1000 * positive) \div length
\* Math.round((positive / length) * 1000), for 0 <= positive <= length
MathRound(positive, length) ==
  IF ExactHalf(positive, length) /\ BelowHalf(positive, length)
    THEN (1000 * positive) \div length
    ELSE (2000 * positive + length) \div (2 * length)

\* calculatePositiveRatio: the value is in tenths of a percent
RatioRows(B, video_id) ==
  {r \in RowsOf(B) : r.video_id = video_id /\ r.is_filtered = FALSE
                     /\ (r.comment_type = 1 \/ r.comment_type = 2)}
calculatePositiveRatio(video_id, B) ==
  LET comments == RatioRows(B, video_id)
      length == SumCounts(B, comments)
      positive == SumCounts(B, {c \in comments : c.comment_type = 1})
  IN IF length = 0 THEN NULL ELSE MathRound(positive, length)

\* the numbers of rows of a video that are positive and negative and not
\* filtered out (what the ratio of a summary is a ratio of)
Counted(B, video_id) ==
  LET of(type) == SumCounts(B, {r \in RowsOf(B) : r.video_id = video_id
                                  /\ ~r.is_filtered /\ r.comment_type = type})
  IN [positive |-> of(1), negative |-> of(2)]

\* --------------------------------------------------- the n8n webhooks
SeqsUpTo(S, n) == UNION {[1..k -> S] : k \in 0..n}

\* what an axios call that does not answer 2xx does
Rejected == [rejected |-> TRUE]

\* n8nRes.data of comments-analysis.  The payload is an object
\* {summary_title?, summary}; it arrives under `output` (Nested) or at top
\* level, as the object, as its JSON text, or as a text that is no JSON.
\* The service may also answer without a payload: null, or the text "null",
\* at top level or under `output`.
\* JSON.stringify(x) is the text [json |-> x]; [raw |-> t] is a text that
\* JSON.parse rejects.
\* A title is a string; "undefined" stands for a payload without the field
\* and "null" for the JSON null.
Payload(title) == [summary_title |-> title, summary |-> "S"]
Titles == {"T", "undefined", ""}
\* the Korean default title of queue.js 63 and 70 ("analysis result")
DefaultTitle == "analysis result"
Stringify(x) == [json |-> x]
IsString(x) == DOMAIN x \in {{"json"}, {"raw"}}
ParseThrows(text) == DOMAIN text # {"json"}
Parse(text) == text.json
Nested(p) == [output |-> p]
\* the JSON null, as an answer or as what a JSON text parses to
Null == [null |-> TRUE]
AnalysisData ==
  LET payloads == {Payload(t) : t \in Titles}
                  \cup {Stringify(Payload(t)) : t \in Titles}
                  \cup {[raw |-> "oops"]}
                  \cup {Null, Stringify(Null)}
  IN payloads \cup {Nested(p) : p \in payloads}

\* queue.js 52-55: n8nRes.data.output, or n8nRes.data when that is undefined
Output(data) == IF "output" \in DOMAIN data THEN data.output ELSE data
\* queue.js 57-67
ParsedOutput(data) ==
  LET output == Output(data)
  IN IF IsString(output)
       THEN IF ParseThrows(output)
              THEN [summary_title |-> DefaultTitle, summary |-> Stringify(output)]
              ELSE Parse(output)
       ELSE output
\* queue.js 52 and 70: reading a property of null throws a TypeError, at 52
\* when n8nRes.data is null, at 70 when parsedOutput is
AnalysisThrows(data) == data = Null \/ ParsedOutput(data) = Null
\* (fault) the title without its default
SummaryTitle_NoDefault(parsedOutput) == parsedOutput.summary_title
\* the values of a title that `||` takes for false
Falsy(title) == title \in {"undefined", "null", ""}
\* queue.js 70: parsedOutput.summary_title || default
SummaryTitle(parsedOutput) ==
  IF Falsy(parsedOutput.summary_title) THEN DefaultTitle
  ELSE parsedOutput.summary_title

\* n8nRes.data of comments-classify and comments-filtering: the list is at
\* data.output.comments, data.output, data.comments or data; "object" is an
\* answer that holds no list at all
ListShapes == {"output.comments", "output", "comments", "array"}
ClassifyEntries(ids, types) == [id : ids, text : {"nice"}, comment_type : types]
FilterEntries(ids) == [id : ids, text : {"nice"}, is_filtered : {0, 1}]
ListData(Entries, n) ==
  { [shape |-> sh, list |-> l] : sh \in ListShapes, l \in SeqsUpTo(Entries, n) }
  \cup { [shape |-> "object", list |-> <<>>] }
\* queue.js 101-107 and 212-217: output.comments || output
CommentsOf(data) == data.list
Iterable(data) == data.shape \in ListShapes

\* ------------------------------------------------------------ the state
\* comments, i: the list the for-loop walks and the index of the comment
\* it is at; results: the rows the loop has pushed (by external id);
\* stmt_time: NOW() of the statement the handler is waiting for; item: the
\* snippet the filter loop has fetched for the comment it is at
NoItem == [undefined |-> TRUE]
NoLocal == [comments |-> <<>>, i |-> 0, results |-> <<>>, summary_title |-> "",
            summary |-> <<>>, positive_ratio |-> NULL, stmt_time |-> 0,
            item |-> NoItem]
\* history of a job: the watermark of its video when its handler started,
\* the watermark UPDATEs it made, the summary rows it inserted, the numbers
\* of positive and negative rows its ratio was computed from, (only in
\* the specifications that observe it) table "Comment" when it started,
\* what became of its call of the n8n webhook ("none" before the call,
\* then "answered" or "rejected"), the comment_classified_at a classify
\* job put in the body of that call, and the n8nRes.data an analysis job got
NoHist == [wmAtStart |-> DefaultClassifiedAt, wmWrites |-> 0, summaries |-> {},
           basis |-> <<>>, before |-> <<>>, n8n |-> "none", sent |-> NULL,
           answer |-> <<>>]

\* the HTTP responses: res.status(status).json(body), kept with the request
\* they answer
NoResponse == [status |-> 0]
Request(endpoint, video_id) == [endpoint |-> endpoint, video_id |-> video_id]
Answer(request, status, body) == [request |-> request, status |-> status, body |-> body]

\* no competitor is registered and no registration is under way
NoOthers ==
  /\ Other_channel = {}
  /\ otherSeq = 0
  /\ registering = <<>>
  /\ Channel = {}
  /\ channelSeq = 0

EmptyQueue ==
  /\ jobs = <<>>
  /\ jobState = <<>>
  /\ pc = <<>>
  /\ local = <<>>
  /\ hist = <<>>

\* a database in which no job has run yet
Init ==
  /\ EmptyQueue
  /\ Comment = <<>>
  /\ Summary = {}
  /\ summarySeq = 0
  /\ Video = [v \in Videos |-> DefaultClassifiedAt]
  /\ now = 1
  /\ response = NoResponse
  /\ inflight = <<>>
  /\ NoOthers

Store == <<Comment, Summary, summarySeq, Video, now>>
Queue == <<jobs, jobState>>

\* ------------------------------------------------- the enqueue endpoints
\* A request that awaits more than once stands in `inflight` between its
\* awaits: a record with the request, the await it stands at and the local
\* variables of its handler.
BagTake(B, r) ==
  [x \in {y \in RowsOf(B) : y # r \/ B[y] > 1} |-> IF x = r THEN B[x] - 1 ELSE B[x]]
Waiting(endpoint, at) ==
  {r \in RowsOf(inflight) : r.request.endpoint = endpoint /\ r.at = at}
InFlight == SumCounts(inflight, RowsOf(inflight))
\* the requests whose n8nQueue.add is still to come
Adding == SumCounts(inflight, {r \in RowsOf(inflight) : r.at = "add"})

\* (fault) a request that is added twice
QueueAdd_Twice(data) ==
  /\ jobs' = jobs \o <<data, data>>
  /\ jobState' = jobState \o <<"waiting", "waiting">>
  /\ pc' = pc \o <<"idle", "idle">>
  /\ local' = local \o <<NoLocal, NoLocal>>
  /\ hist' = hist \o <<NoHist, NoHist>>
\* n8nQueue.add(name, data): the job gets the next id and waits
QueueAdd(data) ==
  /\ jobs' = Append(jobs, data)
  /\ jobState' = Append(jobState, "waiting")
  /\ pc' = Append(pc, "idle")
  /\ local' = Append(local, NoLocal)
  /\ hist' = Append(hist, NoHist)

\* (fault) an endpoint that reports an error for a job it has added
Enqueue_ErrorAfterAdd(request, data, error, ok) ==
  /\ QueueAdd(data)
  /\ response' = IF ok THEN Answer(request, 200, [success |-> TRUE, job_id |-> Len(jobs) + 1])
                       ELSE Answer(request, 500, error)
\* job = await n8nQueue.add(...); res.status(200).json({success: true,
\* job_id: job.id}), and the catch: res.status(500).json(error); ok is
\* whether the call of the queue answers
Enqueue(request, data, error, ok) ==
  IF ok
    THEN /\ QueueAdd(data)
         /\ response' = Answer(request, 200, [success |-> TRUE, job_id |-> Len(jobs) + 1])
    ELSE /\ response' = Answer(request, 500, error)
         /\ UNCHANGED <<jobs, jobState, pc, local, hist>>

\* POST /videos/:video_id/comments/analysis
PostAnalysis(video_id, limit, ok) ==
  /\ Len(jobs) + Adding < limit
  /\ Enqueue(Request("analysis", video_id),
             [videoId |-> video_id, jobType |-> "analysis",
              data |-> [video_id |-> video_id]],
             [error |-> "analysis"], ok)
  /\ UNCHANGED <<Store, Others, inflight>>

\* POST /videos/:video_id/comments/classify, up to the end of its first
\* await: without GOOGLE_API_KEY (apiKey) the answer is 500 at once; the
\* SELECT of the watermark throws (500) or gives the value the handler
\* holds while it waits for n8nQueue.add
PostClassify(video_id, limit, apiKey, ok) ==
  /\ Len(jobs) + Adding < limit
  /\ LET request == Request("classify", video_id)
     IN IF ~apiKey
          THEN response' = Answer(request, 500, [error |-> "apiKey"]) /\ UNCHANGED inflight
          ELSE IF ~ok
            THEN response' = Answer(request, 500, [error |-> "classify"])
                 /\ UNCHANGED inflight
            ELSE /\ inflight' = BagAdd(inflight,
                                  [request |-> request, at |-> "add",
                                   comment_classified_at |-> Video[video_id]])
                 /\ UNCHANGED response
  /\ UNCHANGED <<Queue, pc, local, hist, Store, Others>>
\* its second await: n8nQueue.add with the watermark the SELECT gave
PostClassifyAdd(r, ok) ==
  /\ r \in Waiting("classify", "add")
  /\ Enqueue(r.request,
             [videoId |-> r.request.video_id, jobType |-> "classify",
              data |-> [video_id |-> r.request.video_id,
                        comment_classified_at |-> r.comment_classified_at]],
             [error |-> "classify"], ok)
  /\ inflight' = BagTake(inflight, r)
  /\ UNCHANGED <<Store, Others>>

\* POST /videos/:video_id/comments/filter; a request without a keyword
\* (NoKeyword) is answered 400
NoKeyword == ""
PostFilter(video_id, filtering_keyword, limit, ok) ==
  /\ Len(jobs) + Adding < limit
  /\ IF filtering_keyword = NoKeyword
       THEN /\ response' = Answer(Request("filter", video_id), 400, [success |-> FALSE])
            /\ UNCHANGED <<jobs, jobState, pc, local, hist>>
       ELSE Enqueue(Request("filter", video_id),
                    [videoId |-> video_id, jobType |-> "filter",
                     data |-> [video_id |-> video_id,
                               filtering_keyword |-> filtering_keyword]],
                    [success |-> FALSE, error |-> "filter"], ok)
  /\ UNCHANGED <<Store, Others, inflight>>

\* ---------------------------------------------------- the status endpoints
\* GET /videos/:video_id/comments/{analysis,classify,filter}/status/:job_id
\* are the same code three times but for the body of the 500 answer; none
\* looks at the type or the video of the job it finds
StatusRequest(type, video_id, job_id) ==
  [endpoint |-> "status", type |-> type, video_id |-> video_id, job_id |-> job_id]
\* the body of the catch: the filter route adds success: false
StatusError(type) ==
  IF type = "filter" THEN [success |-> FALSE, error |-> "status"]
  ELSE [error |-> "status"]

NoJob == [undefined |-> TRUE]
\* Job.fromId(n8nQueue, job_id)
FromId(job_id) == IF job_id \in JobIds THEN jobs[job_id] ELSE NoJob
\* (fault) the state the job had when it was added
GetState_Stale(job_id) == "waiting"
\* job.getState()
GetState(job_id) == jobState[job_id]

\* (fault) a status request that fails the waiting job it asks about
GetStatus_Drops(type, video_id, job_id, ok) ==
  LET request == StatusRequest(type, video_id, job_id)
  IN /\ IF ~ok
          THEN response' = Answer(request, 500, StatusError(type)) /\ UNCHANGED inflight
          ELSE IF FromId(job_id) = NoJob
            THEN response' = Answer(request, 404, [success |-> FALSE])
                 /\ UNCHANGED inflight
            ELSE /\ inflight' = BagAdd(inflight, [request |-> request, at |-> "getState"])
                 /\ UNCHANGED response
     /\ jobState' = [j \in JobIds |-> IF j = job_id /\ jobState[j] = "waiting"
                                        THEN "failed" ELSE jobState[j]]
     /\ UNCHANGED <<jobs, pc, local, hist, Store, Others>>
\* the handler up to the end of its first await, Job.fromId: the call
\* throws (500), finds no job (404) or finds the job, and the handler goes
\* on to job.getState()
GetStatus(type, video_id, job_id, ok) ==
  LET request == StatusRequest(type, video_id, job_id)
  IN /\ IF ~ok
          THEN response' = Answer(request, 500, StatusError(type)) /\ UNCHANGED inflight
          ELSE IF FromId(job_id) = NoJob
            THEN response' = Answer(request, 404, [success |-> FALSE])
                 /\ UNCHANGED inflight
            ELSE /\ inflight' = BagAdd(inflight, [request |-> request, at |-> "getState"])
                 /\ UNCHANGED response
     /\ UNCHANGED <<Queue, pc, local, hist, Store, Others>>
\* its second await, job.getState(): the answer holds the state the job has
\* now, and the video_id and job_id of the path
GetStatusState(r, ok) ==
  /\ r \in Waiting("status", "getState")
  /\ response' =
       IF ok THEN Answer(r.request, 200,
                         [success |-> TRUE, status |-> GetState(r.request.job_id),
                          job_id |-> r.request.job_id, video_id |-> r.request.video_id])
       ELSE Answer(r.request, 500, StatusError(r.request.type))
  /\ inflight' = BagTake(inflight, r)
  /\ UNCHANGED <<Queue, pc, local, hist, Store, Others>>

\* ------------------------------------------------- the summary endpoint
DeleteRequest(video_id, summary_id) ==
  [endpoint |-> "summary", video_id |-> video_id, summary_id |-> summary_id]
\* the rows WHERE id = $1 AND video_id = $2 of "Comment_summary"
SummaryRows(summary_id, video_id) ==
  {s \in Summary : s.id = summary_id /\ s.video_id = video_id}
\* DELETE /videos/:video_id/comments/summary/:summary_id (the caller holds
\* a valid token), up to the end of its first await, the SELECT: it throws
\* (500), finds no row (404) or finds the row
DeleteSummary(video_id, summary_id, ok) ==
  LET request == DeleteRequest(video_id, summary_id)
      checkResult == SummaryRows(summary_id, video_id)
  IN /\ IF ~ok
          THEN response' = Answer(request, 500, [success |-> FALSE]) /\ UNCHANGED inflight
          ELSE IF checkResult = {}
            THEN response' = Answer(request, 404, [success |-> FALSE])
                 /\ UNCHANGED inflight
            ELSE /\ inflight' = BagAdd(inflight, [request |-> request, at |-> "delete"])
                 /\ UNCHANGED response
     /\ UNCHANGED <<Queue, pc, local, hist, Store, Others>>
\* its second await, the DELETE: deleteResult.rowCount > 0 ? 200 : 404
DeleteSummaryDelete(r, ok) ==
  /\ r \in Waiting("summary", "delete")
  /\ LET deleted == SummaryRows(r.request.summary_id, r.request.video_id)
     IN IF ~ok
          THEN response' = Answer(r.request, 500, [success |-> FALSE]) /\ UNCHANGED Summary
          ELSE /\ Summary' = Summary \ deleted
               /\ response' = IF Cardinality(deleted) > 0
                                THEN Answer(r.request, 200, [success |-> TRUE])
                                ELSE Answer(r.request, 404, [success |-> FALSE])
  /\ inflight' = BagTake(inflight, r)
  /\ UNCHANGED <<Queue, pc, local, hist, Comment, summarySeq, Video, now, Others>>

\* ------------------------------------------------ the comment endpoints
\* DELETE and PUT /videos/:video_id/comments walk the comment_ids of the
\* body; i is the comment the loop is at, errors the ids pushed to `errors`
\* DELETE FROM "Comment" WHERE video_id = $1 AND youtube_comment_id = $2
DeleteComment(B, video_id, cid) ==
  [x \in {r \in RowsOf(B) : ~(r.video_id = video_id /\ r.youtube_comment_id = cid)}
     |-> B[x]]
\* UPDATE "Comment" SET comment_type = $1 WHERE video_id = $2 AND youtube_comment_id = $3
UpdateType(B, newType, video_id, cid) ==
  BagUpdate(B, LAMBDA r : r.video_id = video_id /\ r.youtube_comment_id = cid,
               LAMBDA r : [r EXCEPT !.comment_type = newType])
\* videos.js 2453-2460: 0 and 1 become 2, 2 becomes 1, anything else is an
\* error (NULL)
NewType(currentType) ==
  IF currentType = 0 \/ currentType = 1 THEN 2
  ELSE IF currentType = 2 THEN 1 ELSE NULL

\* the loop goes on to its next comment (first) or, after the last, the
\* handler answers 200 with the body
NextComment(r, loop, first, body) ==
  IF loop.i + 1 <= Len(r.request.comment_ids)
    THEN /\ inflight' = BagAdd(BagTake(inflight, r),
                               [loop EXCEPT !.i = @ + 1, !.at = first])
         /\ UNCHANGED response
    ELSE /\ inflight' = BagTake(inflight, r)
         /\ response' = Answer(r.request, 200, body)

\* DELETE /videos/:video_id/comments: a body without comment ids or without
\* token is answered 400; else the loop starts with setModerationStatus
DeleteComments(video_id, comment_ids, youtube_access_token) ==
  LET request == [endpoint |-> "comments.delete", video_id |-> video_id,
                  comment_ids |-> comment_ids]
  IN /\ IF comment_ids = <<>> \/ ~youtube_access_token
          THEN response' = Answer(request, 400, [error |-> "body"]) /\ UNCHANGED inflight
          ELSE /\ inflight' = BagAdd(inflight,
                                [request |-> request, at |-> "moderate", i |-> 1,
                                 youtubeDeleted |-> 0, dbDeleted |-> 0, errors |-> <<>>])
               /\ UNCHANGED response
     /\ UNCHANGED <<Queue, pc, local, hist, Store, Others>>
DeleteBody(loop) ==
  [success |-> TRUE, youtubeDeleted |-> loop.youtubeDeleted,
   dbDeleted |-> loop.dbDeleted, errors |-> loop.errors]
\* videos.js 2106-2124: YouTube hides the comment, or the call throws and
\* the loop goes on without the DELETE
DeleteCommentsModerate(r, ok) ==
  /\ r \in Waiting("comments.delete", "moderate")
  /\ IF ok
       THEN /\ inflight' = BagAdd(BagTake(inflight, r),
                                  [r EXCEPT !.youtubeDeleted = @ + 1, !.at = "delete"])
            /\ UNCHANGED response
       ELSE LET loop == [r EXCEPT !.errors = Append(@, r.request.comment_ids[r.i])]
            IN NextComment(r, loop, "moderate", DeleteBody(loop))
  /\ UNCHANGED <<Queue, pc, local, hist, Store, Others>>
\* videos.js 2126-2137: the hard delete; a statement that deletes no row
\* counts as a deletion, one that throws is pushed to errors
DeleteCommentsDelete(r, ok) ==
  /\ r \in Waiting("comments.delete", "delete")
  /\ LET commentId == r.request.comment_ids[r.i]
         loop == IF ok THEN [r EXCEPT !.dbDeleted = @ + 1]
                 ELSE [r EXCEPT !.errors = Append(@, commentId)]
     IN /\ Comment' = IF ok THEN DeleteComment(Comment, r.request.video_id, commentId)
                      ELSE Comment
        /\ NextComment(r, loop, "moderate", DeleteBody(loop))
  /\ UNCHANGED <<Queue, pc, local, hist, Summary, summarySeq, Video, now, Others>>

\* PUT /videos/:video_id/comments: a body without comment ids is answered
\* 400; else the loop starts with the SELECT of the first comment
PutComments(video_id, comment_ids) ==
  LET request == [endpoint |-> "comments.put", video_id |-> video_id,
                  comment_ids |-> comment_ids]
  IN /\ IF comment_ids = <<>>
          THEN response' = Answer(request, 400, [error |-> "body"]) /\ UNCHANGED inflight
          ELSE /\ inflight' = BagAdd(inflight,
                                [request |-> request, at |-> "check", i |-> 1,
                                 newType |-> NULL, updated |-> 0, errors |-> <<>>])
               /\ UNCHANGED response
     /\ UNCHANGED <<Queue, pc, local, hist, Store, Others>>
PutBody(loop) == [success |-> TRUE, updated |-> loop.updated, errors |-> loop.errors]
\* videos.js 2447-2466: the SELECT of the comment's type; a comment that is
\* not stored for the video, a type that is none of 0, 1, 2 and a statement
\* that throws are pushed to errors
PutCommentsCheck(r, ok) ==
  /\ r \in Waiting("comments.put", "check")
  /\ LET commentId == r.request.comment_ids[r.i]
         check == ExistingComment(Comment, commentId, r.request.video_id)
         newType == IF check = {} THEN NULL
                    ELSE NewType((CHOOSE row \in check : TRUE).comment_type)
         loop == [r EXCEPT !.errors = Append(@, commentId)]
     IN IF ok /\ newType # NULL
          THEN /\ inflight' = BagAdd(BagTake(inflight, r),
                                     [r EXCEPT !.newType = newType, !.at = "update"])
               /\ UNCHANGED response
          ELSE NextComment(r, loop, "check", PutBody(loop))
  /\ UNCHANGED <<Queue, pc, local, hist, Store, Others>>
\* videos.js 2467-2475: the UPDATE of comment_type
PutCommentsUpdate(r, ok) ==
  /\ r \in Waiting("comments.put", "update")
  /\ LET commentId == r.request.comment_ids[r.i]
         loop == IF ok THEN [r EXCEPT !.updated = @ + 1, !.newType = NULL]
                 ELSE [r EXCEPT !.errors = Append(@, commentId), !.newType = NULL]
     IN /\ Comment' = IF ok THEN UpdateType(Comment, r.newType, r.request.video_id, commentId)
                      ELSE Comment
        /\ NextComment(r, loop, "check", PutBody(loop))
  /\ UNCHANGED <<Queue, pc, local, hist, Summary, summarySeq, Video, now, Others>>

\* -------------------------------------------- the competitor endpoints
\* src/routes/others.js.  A request of POST /api/others goes through its
\* awaits one by one; `registering` holds, per request, the user, the
\* channelUrl of the body, the await the handler stands at (pc), its local
\* variables (channelId, the id of `channel`, isNewChannel) and the status
\* of the response, 0 while there is none.  A call outside a try block that
\* throws leaves the request without a response (pc "lost").
Users == {1, 2}
MaxCompetitors == 2
\* a channel link is the sequence of the parts of its text, as in
\* <<"youtube.com", "channel", "UCa">> and <<"youtube.com", "@", "b">>; a
\* body without channelUrl is NoUrl
NoUrl == <<>>
\* the ids that start with UC
ChannelIds == {"UCa", "UCb", "UCc", "UCd"}
startsWithUC(channelId) == channelId \in ChannelIds
\* what YouTube answers to channels?forHandle=: the id of the channel of
\* the handle, if there is one
NoId == "null"
ForHandle(handle) == IF handle = "b" THEN "UCb" ELSE NoId
\* url.match(/youtube\.com\/<word>([\w-]+)/): the places of the link where
\* the pattern matches
MatchesOf(url, word) ==
  {i \in 1..(Len(url) - 2) : url[i] = "youtube.com" /\ url[i + 1] = word}
extractChannelId(url) ==
  LET first(word) == CHOOSE i \in MatchesOf(url, word) :
                       \A k \in MatchesOf(url, word) : i <= k
  IN IF MatchesOf(url, "channel") # {} THEN url[first("channel") + 2]
     ELSE IF MatchesOf(url, "@") # {} THEN url[first("@") + 2]
     ELSE NoId

\* "channel_name" VARCHAR(20) of "Channel": the INSERT of a longer name is
\* refused, after the serial of the table has given its value.  A title
\* (snippet.title) stands in the model for its length.
NameLimit == 20
TitleLengths == {NameLimit, NameLimit + 1}
TooLong(title) == title > NameLimit
\* prisma.other_channel.count({ where: { user_id } })
CompetitorsOf(userId) == {o \in Other_channel : o.user_id = userId}
\* CREATE UNIQUE INDEX "Other_channel_user_id_channel_id_key"
OtherThrows(userId, channel_id) ==
  \E o \in Other_channel : o.user_id = userId /\ o.channel_id = channel_id
\* the rows of "Channel" with this YouTube id; the table has no unique
\* index on youtube_channel_id
ChannelsOf(channelId) == {c \in Channel : c.youtube_channel_id = channelId}

\* a request whose handler has set none of its local variables, or has
\* returned
Registration(userId, channelUrl, at, status) ==
  [userId |-> userId, channelUrl |-> channelUrl, pc |-> at, status |-> status,
   channelId |-> NoId, channel |-> NULL, isNewChannel |-> FALSE, title |-> 0]
\* res.status(status).json(...): the request is answered and its handler
\* has returned
Answered(r, status) ==
  Registration(registering[r].userId, registering[r].channelUrl, "done", status)
\* a call outside every try block has thrown
Lost(r) ==
  Registration(registering[r].userId, registering[r].channelUrl, "lost", 0)

\* the request arrives (a valid token): without channelUrl it is answered
\* 400, else the handler calls other_channel.count
PostOthers(userId, channelUrl, limit) ==
  /\ Len(registering) < limit
  /\ registering' =
       Append(registering,
              IF channelUrl = NoUrl THEN Registration(userId, channelUrl, "done", 400)
              ELSE Registration(userId, channelUrl, "count", 0))
  /\ UNCHANGED <<Queue, pc, local, hist, Store, Api, Other_channel, otherSeq,
                 Channel, channelSeq>>

\* others.js 285-314: currentCompetitorsCount >= 2 is answered 400, a link
\* that is no channel link is answered 400; an id that does not start with
\* UC is a handle, which YouTube is asked for
OthersCount(r, ok) ==
  /\ r \in DOMAIN registering /\ registering[r].pc = "count"
  /\ LET currentCompetitorsCount == Cardinality(CompetitorsOf(registering[r].userId))
         channelId == extractChannelId(registering[r].channelUrl)
     IN registering' =
          [registering EXCEPT ![r] =
             IF ~ok THEN Lost(r)
             ELSE IF currentCompetitorsCount >= MaxCompetitors THEN Answered(r, 400)
             ELSE IF channelId = NoId THEN Answered(r, 400)
             ELSE [@ EXCEPT !.channelId = channelId,
                            !.pc = IF startsWithUC(channelId) THEN "findChannel"
                                   ELSE "handle"]]
  /\ UNCHANGED <<Queue, pc, local, hist, Store, Api, Other_channel, otherSeq,
                 Channel, channelSeq>>

\* others.js 301-312: the fetch of channels?forHandle=; a handle YouTube
\* does not know is answered 404
OthersHandle(r, yt) ==
  /\ r \in DOMAIN registering /\ registering[r].pc = "handle"
  /\ LET channelId == IF yt = "ok" THEN ForHandle(registering[r].channelId) ELSE NoId
     IN registering' =
          [registering EXCEPT ![r] =
             IF yt = "error" THEN Lost(r)
             ELSE IF channelId = NoId THEN Answered(r, 404)
             ELSE [@ EXCEPT !.channelId = channelId, !.pc = "findChannel"]]
  /\ UNCHANGED <<Queue, pc, local, hist, Store, Api, Other_channel, otherSeq,
                 Channel, channelSeq>>

\* others.js 315-317: prisma.channel.findFirst({ where: { youtube_channel_id } })
\* gives one of the rows of the channel (found), or none
NoChannel == [id |-> NULL, user_id |-> NULL, youtube_channel_id |-> NoId]
OthersFindChannel(r, found, ok) ==
  /\ r \in DOMAIN registering /\ registering[r].pc = "findChannel"
  /\ found \in ChannelsOf(registering[r].channelId) \cup {NoChannel}
  /\ found = NoChannel <=> ChannelsOf(registering[r].channelId) = {}
  /\ registering' =
       [registering EXCEPT ![r] =
          IF ~ok THEN Lost(r)
          ELSE IF found = NoChannel THEN [@ EXCEPT !.pc = "info"]
          ELSE [@ EXCEPT !.channel = found.id, !.pc = "myChannel"]]
  /\ UNCHANGED <<Queue, pc, local, hist, Store, Api, Other_channel, otherSeq,
                 Channel, channelSeq>>

\* others.js 318-326: the fetch of channels?part=snippet, which gives the
\* title of the channel; a channel YouTube does not know is answered 404
OthersInfo(r, yt, title) ==
  /\ r \in DOMAIN registering /\ registering[r].pc = "info"
  /\ registering' =
       [registering EXCEPT ![r] =
          IF yt = "error" THEN Lost(r)
          ELSE IF yt = "none" THEN Answered(r, 404)
          ELSE [@ EXCEPT !.title = title, !.pc = "createChannel"]]
  /\ UNCHANGED <<Queue, pc, local, hist, Store, Api, Other_channel, otherSeq,
                 Channel, channelSeq>>

\* others.js 327-337: prisma.channel.create with user_id null and
\* channel_name: snippet.title, outside every try block.  A statement that
\* does not reach the database (~ok) leaves the table and its serial as
\* they are; one that the database refuses for the length of the name
\* has used up a value of the serial.
OthersCreateChannel(r, ok) ==
  /\ r \in DOMAIN registering /\ registering[r].pc = "createChannel"
  /\ IF ok /\ ~TooLong(registering[r].title)
       THEN /\ Channel' = Channel \cup {[id |-> channelSeq + 1, user_id |-> NULL,
                                         youtube_channel_id |-> registering[r].channelId]}
            /\ channelSeq' = channelSeq + 1
            /\ registering' = [registering EXCEPT ![r].channel = channelSeq + 1,
                                                  ![r].isNewChannel = TRUE,
                                                  ![r].pc = "myChannel"]
       ELSE /\ registering' = [registering EXCEPT ![r] = Lost(r)]
            /\ channelSeq' = IF ok THEN channelSeq + 1 ELSE channelSeq
            /\ UNCHANGED Channel
  /\ UNCHANGED <<Queue, pc, local, hist, Store, Api, Other_channel, otherSeq>>

\* others.js 340-348: prisma.channel.findFirst({ where: { user_id,
\* youtube_channel_id } }); the user's own channel is answered 400
OthersMyChannel(r, ok) ==
  /\ r \in DOMAIN registering /\ registering[r].pc = "myChannel"
  /\ LET myChannel == {c \in ChannelsOf(registering[r].channelId) :
                         c.user_id = registering[r].userId}
     IN registering' =
          [registering EXCEPT ![r] =
             IF ~ok THEN Lost(r)
             ELSE IF myChannel # {} THEN Answered(r, 400)
             ELSE [@ EXCEPT !.pc = IF registering[r].isNewChannel THEN "videos"
                                   ELSE "create"]]
  /\ UNCHANGED <<Queue, pc, local, hist, Store, Api, Other_channel, otherSeq,
                 Channel, channelSeq>>

\* others.js 351-360: the fetch of the videos of a new channel; the handler
\* goes on whether the call answers or throws
OthersVideos(r) ==
  /\ r \in DOMAIN registering /\ registering[r].pc = "videos"
  /\ registering' = [registering EXCEPT ![r].pc = "create"]
  /\ UNCHANGED <<Queue, pc, local, hist, Store, Api, Other_channel, otherSeq,
                 Channel, channelSeq>>

\* others.js 362-375: prisma.other_channel.create with the id of `channel`;
\* every error (the unique index, the database) is answered 200 "already
\* registered".  The INSERT takes the next value of the serial of
\* "Other_channel" before the unique index is checked: a statement the
\* index refuses has used the value up, one that did not reach the
\* database (~ok) has not.
OthersCreate(r, ok) ==
  /\ r \in DOMAIN registering /\ registering[r].pc = "create"
  /\ LET userId == registering[r].userId
         channel_id == registering[r].channel
         created == ok /\ ~OtherThrows(userId, channel_id)
     IN /\ Other_channel' =
             IF created
               THEN Other_channel \cup {[id |-> otherSeq + 1, user_id |-> userId,
                                         channel_id |-> channel_id]}
               ELSE Other_channel
        /\ otherSeq' = IF ok THEN otherSeq + 1 ELSE otherSeq
  /\ registering' = [registering EXCEPT ![r] = Answered(r, 200)]
  /\ UNCHANGED <<Queue, pc, local, hist, Store, Api, Channel, channelSeq>>

\* DELETE /api/others/:other_channel_id: deleteMany({ where: { id, user_id } });
\* no row deleted is answered 404, a statement that throws 500
DeleteOthers(userId, other_channel_id, ok) ==
  LET request == [endpoint |-> "others.delete", userId |-> userId,
                  other_channel_id |-> other_channel_id]
      deleted == {o \in Other_channel : o.id = other_channel_id /\ o.user_id = userId}
  IN /\ Other_channel' = IF ok THEN Other_channel \ deleted ELSE Other_channel
     /\ response' = IF ~ok THEN Answer(request, 500, [success |-> FALSE])
                    ELSE IF Cardinality(deleted) = 0
                      THEN Answer(request, 404, [success |-> FALSE])
                    ELSE Answer(request, 200, [success |-> TRUE])
     /\ UNCHANGED <<Queue, pc, local, hist, Store, inflight, otherSeq, registering,
                    Channel, channelSeq>>

\* ------------------------------------------------------ the Google login
\* src/unnamed/part_001 21-90, the verify callback of the GoogleStrategy
\* (GET /auth/google/callback).  It stores the YouTube channels of the
\* account that logs in as the user's own rows of "Channel".  A login
\* stands in `inflight` between its awaits: i is the channel the loop is
\* at.  When the callback calls done, with the token or with the error, the
\* login leaves `inflight`; the response is the route's, not the
\* callback's.
\* ytRes.data.items: the channels of the Google account of a user, each
\* with its id and its title.  The account of user 1 has channel UCa, with
\* a title that fits; the account of user 2 has channel UCc, whose title
\* may change from one login to the next.
Items(userId, title) ==
  IF userId = 1 THEN <<[id |-> "UCa", title |-> NameLimit]>>
  ELSE <<[id |-> "UCc", title |-> title]>>
\* part_001 28-43: findOrCreateUser and channels?mine=true, which touch
\* neither "Channel" nor "Other_channel"; one of them throws (~ok), or the
\* loop starts with the SELECT of the first channel
GoogleLogin(userId, title, ok) ==
  LET request == [endpoint |-> "auth.google", userId |-> userId,
                  channels |-> Items(userId, title)]
  IN /\ inflight' = IF ok /\ request.channels # <<>>
                      THEN BagAdd(inflight, [request |-> request, at |-> "exists",
                                             i |-> 1])
                      ELSE inflight
     /\ UNCHANGED <<Queue, pc, local, hist, Store, response, Others>>
\* the loop goes on to the SELECT of its next channel or, after the last,
\* the callback hands the user and the token over (part_001 46, 78-84)
NextChannel(r) ==
  inflight' = IF r.i + 1 <= Len(r.request.channels)
                THEN BagAdd(BagTake(inflight, r), [r EXCEPT !.i = @ + 1, !.at = "exists"])
                ELSE BagTake(inflight, r)
\* part_001 53-57: SELECT 1 FROM "Channel" WHERE user_id = $1 AND
\* youtube_channel_id = $2; a statement that throws ends the callback
GoogleExists(r, ok) ==
  /\ r \in Waiting("auth.google", "exists")
  /\ LET exists == {c \in ChannelsOf(r.request.channels[r.i].id) :
                      c.user_id = r.request.userId}
     IN IF ~ok THEN inflight' = BagTake(inflight, r)
        ELSE IF exists = {}
          THEN inflight' = BagAdd(BagTake(inflight, r), [r EXCEPT !.at = "insert"])
          ELSE NextChannel(r)
  /\ UNCHANGED <<Queue, pc, local, hist, Store, response, Others>>
\* part_001 58-62: INSERT INTO "Channel" (user_id, youtube_channel_id,
\* channel_name, ...) with the title of the channel; a statement that
\* throws ends the callback, and one that the database refuses for the
\* length of the name has used up a value of the serial
GoogleInsert(r, ok) ==
  /\ r \in Waiting("auth.google", "insert")
  /\ IF ok /\ ~TooLong(r.request.channels[r.i].title)
       THEN /\ Channel' = Channel \cup
                 {[id |-> channelSeq + 1, user_id |-> r.request.userId,
                   youtube_channel_id |-> r.request.channels[r.i].id]}
            /\ channelSeq' = channelSeq + 1
            /\ inflight' = BagAdd(BagTake(inflight, r), [r EXCEPT !.at = "snapshot"])
       ELSE /\ inflight' = BagTake(inflight, r)
            /\ channelSeq' = IF ok THEN channelSeq + 1 ELSE channelSeq
            /\ UNCHANGED Channel
  /\ UNCHANGED <<Queue, pc, local, hist, Store, response, Other_channel, otherSeq,
                 registering>>
\* part_001 64-73: the POST of the snapshot of a new channel; the loop goes
\* on whether the call answers or throws
GoogleSnapshot(r) ==
  /\ r \in Waiting("auth.google", "snapshot")
  /\ NextChannel(r)
  /\ UNCHANGED <<Queue, pc, local, hist, Store, response, Others>>

\* -------------------------------------------------------------- the worker
\* BullMQ hands the oldest waiting job to the worker while one of its
\* `concurrency` slots is free
\* (fault) a worker without a concurrency limit
SlotFree_Unlimited == TRUE
SlotFree == Cardinality(Active) < CONCURRENCY
Claim(j, observe) ==
  /\ jobState[j] = "waiting"
  /\ \A i \in 1..(j - 1) : jobState[i] # "waiting"
  /\ SlotFree
  /\ jobState' = [jobState EXCEPT ![j] = "active"]
  /\ pc' = [pc EXCEPT ![j] = "start"]
  /\ hist' = [hist EXCEPT ![j].wmAtStart = Video[jobs[j].videoId],
                          ![j].before = IF observe THEN Comment ELSE @]
  /\ UNCHANGED <<jobs, local, Store, Api, Others>>

Running(j, type, at) ==
  /\ jobState[j] = "active"
  /\ jobs[j].jobType = type
  /\ pc[j] = at

\* what is left of a handler's variables and history once its job is done:
\* nothing, unless the specification observes finished jobs
Forget(j, observe) ==
  /\ local' = IF observe THEN local ELSE [local EXCEPT ![j] = NoLocal]
  /\ hist' = IF observe THEN hist ELSE [hist EXCEPT ![j] = NoHist]

\* (fault) the handler returned and the queue never learns of it
Complete_Lost(j, observe) ==
  /\ jobState[j] = "active"
  /\ pc[j] = "return"
  /\ pc' = [pc EXCEPT ![j] = "done"]
  /\ Forget(j, observe)
  /\ UNCHANGED <<jobs, jobState, Store, Api, Others>>

\* the handler returned: the queue moves the job to completed
Complete(j, observe) ==
  /\ jobState[j] = "active"
  /\ pc[j] = "return"
  /\ jobState' = [jobState EXCEPT ![j] = "completed"]
  /\ pc' = [pc EXCEPT ![j] = "done"]
  /\ Forget(j, observe)
  /\ UNCHANGED <<jobs, Store, Api, Others>>

\* (fault) a queue that gives the job another attempt
Fail_Retry(j, observe) ==
  /\ jobState[j] = "active"
  /\ pc[j] = "throw"
  /\ jobState' = [jobState EXCEPT ![j] = "waiting"]
  /\ pc' = [pc EXCEPT ![j] = "done"]
  /\ local' = [local EXCEPT ![j] = NoLocal]
  /\ hist' = [hist EXCEPT ![j] = NoHist]
  /\ UNCHANGED <<jobs, Store, Api, Others>>

\* (fault) a throw that takes the whole worker down: every active job fails
Fail_Everyone(j, observe) ==
  /\ jobState[j] = "active"
  /\ pc[j] = "throw"
  /\ jobState' = [i \in JobIds |-> IF jobState[i] = "active" THEN "failed" ELSE jobState[i]]
  /\ pc' = [i \in JobIds |-> IF jobState[i] = "active" THEN "done" ELSE pc[i]]
  /\ local' = [i \in JobIds |-> IF jobState[i] = "active" THEN NoLocal ELSE local[i]]
  /\ hist' = [i \in JobIds |-> IF jobState[i] = "active" THEN NoHist ELSE hist[i]]
  /\ UNCHANGED <<jobs, Store, Api, Others>>

\* (fault) a failed job takes back what it wrote to "Comment"
Fail_Rollback(j, observe) ==
  /\ jobState[j] = "active"
  /\ pc[j] = "throw"
  /\ jobState' = [jobState EXCEPT ![j] = "failed"]
  /\ pc' = [pc EXCEPT ![j] = "done"]
  /\ Forget(j, observe)
  /\ Comment' = hist[j].before
  /\ UNCHANGED <<jobs, Summary, summarySeq, Video, now, Api, Others>>

\* the handler threw (queue.js 282-285 rethrows): the job has no attempts
\* left (n8nQueue.add is called without options) and moves to failed
Fail(j, observe) ==
  /\ jobState[j] = "active"
  /\ pc[j] = "throw"
  /\ jobState' = [jobState EXCEPT ![j] = "failed"]
  /\ pc' = [pc EXCEPT ![j] = "done"]
  /\ Forget(j, observe)
  /\ UNCHANGED <<jobs, Store, Api, Others>>

\* ---------------------------------------------------- jobType 'analysis'
\* queue.js 47-73: the webhook call and the parsing of its answer; an
\* answer that holds null in the place of the payload ends in the catch of
\* queue.js 282 like a rejected call
AnalysisPost(j, res) ==
  /\ Running(j, "analysis", "start")
  /\ IF res = Rejected \/ AnalysisThrows(res)
       THEN pc' = [pc EXCEPT ![j] = "throw"] /\ UNCHANGED local
       ELSE LET parsedOutput == ParsedOutput(res)
            IN /\ local' = [local EXCEPT ![j].summary_title = SummaryTitle(parsedOutput),
                                         ![j].summary = Stringify(parsedOutput)]
               /\ pc' = [pc EXCEPT ![j] = "ratio"]
  /\ hist' = [hist EXCEPT ![j].n8n = IF res = Rejected THEN "rejected" ELSE "answered",
                          ![j].answer = res]
  /\ UNCHANGED <<Queue, Store, Api, Others>>

\* (fault) an answer with a title of its own gives the ratio too
AnalysisRatio_FromAnswer(j, ok) ==
  /\ Running(j, "analysis", "ratio")
  /\ IF ok
       THEN /\ local' = [local EXCEPT ![j].positive_ratio =
                           IF local[j].summary_title # DefaultTitle THEN 500
                           ELSE calculatePositiveRatio(jobs[j].videoId, Comment)]
            /\ hist' = [hist EXCEPT ![j].basis = Counted(Comment, jobs[j].videoId)]
            /\ pc' = [pc EXCEPT ![j] = "insert"]
       ELSE pc' = [pc EXCEPT ![j] = "throw"] /\ UNCHANGED <<local, hist>>
  /\ UNCHANGED <<Queue, Store, Api, Others>>

\* queue.js 76: calculatePositiveRatio(videoId, pool)
AnalysisRatio(j, ok) ==
  /\ Running(j, "analysis", "ratio")
  /\ IF ok
       THEN /\ local' = [local EXCEPT ![j].positive_ratio =
                           calculatePositiveRatio(jobs[j].videoId, Comment)]
            /\ hist' = [hist EXCEPT ![j].basis = Counted(Comment, jobs[j].videoId)]
            /\ pc' = [pc EXCEPT ![j] = "insert"]
       ELSE pc' = [pc EXCEPT ![j] = "throw"] /\ UNCHANGED <<local, hist>>
  /\ UNCHANGED <<Queue, Store, Api, Others>>

\* (fault) one summary per video: the new row takes the place of the rows
\* the video has
AnalysisInsert_Replace(j, ok) ==
  /\ Running(j, "analysis", "insert")
  /\ IF ok
       THEN /\ summarySeq' = summarySeq + 1
            /\ Summary' = {s \in Summary : s.video_id # jobs[j].videoId} \cup
                 {[id |-> summarySeq + 1, video_id |-> jobs[j].videoId,
                   summary |-> local[j].summary,
                   summary_title |-> local[j].summary_title,
                   positive_ratio |-> local[j].positive_ratio,
                   created_at |-> now]}
            /\ hist' = [hist EXCEPT ![j].summaries = @ \cup {summarySeq + 1}]
            /\ pc' = [pc EXCEPT ![j] = "return"]
       ELSE /\ pc' = [pc EXCEPT ![j] = "throw"]
            /\ UNCHANGED <<Summary, summarySeq, hist>>
  /\ UNCHANGED <<Queue, local, Comment, Video, now, Api, Others>>

\* queue.js 79-87: INSERT INTO "Comment_summary" ... RETURNING *
AnalysisInsert(j, ok) ==
  /\ Running(j, "analysis", "insert")
  /\ IF ok
       THEN /\ summarySeq' = summarySeq + 1
            /\ Summary' = Summary \cup
                 {[id |-> summarySeq + 1, video_id |-> jobs[j].videoId,
                   summary |-> local[j].summary,
                   summary_title |-> local[j].summary_title,
                   positive_ratio |-> local[j].positive_ratio,
                   created_at |-> now]}
            /\ hist' = [hist EXCEPT ![j].summaries = @ \cup {summarySeq + 1}]
            /\ pc' = [pc EXCEPT ![j] = "return"]
       ELSE /\ pc' = [pc EXCEPT ![j] = "throw"]
            /\ UNCHANGED <<Summary, summarySeq, hist>>
  /\ UNCHANGED <<Queue, local, Comment, Video, now, Api, Others>>

\* ---------------------------------------------------- jobType 'classify'
\* (fault) the handler without its `results.length > 0` test
ClassifyNext_Always(comments, i, results) ==
  IF i <= Len(comments) THEN "meta" ELSE "watermark"
\* where the for-loop of queue.js 110 goes when it reaches comment i
ClassifyNext(comments, i, results) ==
  IF i <= Len(comments) THEN "meta"
  ELSE IF Len(results) > 0 THEN "watermark" ELSE "return"

\* (fault) a rejected request is taken for an answer without comments
ClassifyPost_Swallow(j, res) ==
  /\ Running(j, "classify", "start")
  /\ IF res # Rejected /\ ~Iterable(res)
       THEN pc' = [pc EXCEPT ![j] = "throw"] /\ UNCHANGED local
       ELSE LET comments == IF res = Rejected THEN <<>> ELSE CommentsOf(res)
            IN /\ local' = [local EXCEPT ![j].comments = comments, ![j].i = 1,
                                         ![j].results = <<>>]
               /\ pc' = [pc EXCEPT ![j] = ClassifyNext(comments, 1, <<>>)]
  /\ hist' = [hist EXCEPT ![j].n8n = IF res = Rejected THEN "rejected" ELSE "answered",
                          ![j].sent = jobs[j].data.comment_classified_at]
  /\ UNCHANGED <<Queue, Store, Api, Others>>

\* queue.js 94-108: the webhook call with the watermark of job.data
ClassifyPost(j, res) ==
  /\ Running(j, "classify", "start")
  /\ IF res = Rejected \/ ~Iterable(res)
       THEN pc' = [pc EXCEPT ![j] = "throw"] /\ UNCHANGED local
       ELSE /\ local' = [local EXCEPT ![j].comments = CommentsOf(res), ![j].i = 1,
                                      ![j].results = <<>>]
            /\ pc' = [pc EXCEPT ![j] = ClassifyNext(CommentsOf(res), 1, <<>>)]
  /\ hist' = [hist EXCEPT ![j].n8n = IF res = Rejected THEN "rejected" ELSE "answered",
                          ![j].sent = jobs[j].data.comment_classified_at]
  /\ UNCHANGED <<Queue, Store, Api, Others>>

\* queue.js 113-133: the metadata of comment c; yt is "ok", "none" (no
\* item) or "error" (axios.get throws)
ClassifyMeta(j, yt) ==
  /\ Running(j, "classify", "meta")
  /\ IF yt = "ok"
       THEN pc' = [pc EXCEPT ![j] = "upsert"] /\ UNCHANGED local
       ELSE /\ local' = [local EXCEPT ![j].i = @ + 1]
            /\ pc' = [pc EXCEPT ![j] =
                        ClassifyNext(local[j].comments, local[j].i + 1, local[j].results)]
  /\ UNCHANGED <<Queue, hist, Store, Api, Others>>

\* queue.js 136-172: the upsert of comment c; a statement that throws is
\* logged and the loop goes on
ClassifyUpsert(j, ok) ==
  /\ Running(j, "classify", "upsert")
  /\ LET c == local[j].comments[local[j].i]
         values == ClassifyValues(c, Snippet(c.id), jobs[j].data.video_id)
         results == IF ok THEN Append(local[j].results, c.id) ELSE local[j].results
     IN /\ Comment' = IF ok THEN UpsertComment(Comment, values) ELSE Comment
        /\ local' = [local EXCEPT ![j].i = @ + 1, ![j].results = results]
        /\ pc' = [pc EXCEPT ![j] =
                    ClassifyNext(local[j].comments, local[j].i + 1, results)]
  /\ UNCHANGED <<Queue, hist, Summary, summarySeq, Video, now, Api, Others>>

\* queue.js 178-181, the statement arrives at the database:
\* UPDATE "Video" SET comment_classified_at = NOW() is a transaction of its
\* own, and NOW() is the start time of the transaction, t (the clock has
\* not gone back since the last reading)
ClassifyWatermarkBegin(j, t) ==
  /\ Running(j, "classify", "watermark")
  /\ t \in {now, now + 1}
  /\ now' = t
  /\ local' = [local EXCEPT ![j].stmt_time = t]
  /\ pc' = [pc EXCEPT ![j] = "watermark_write"]
  /\ UNCHANGED <<Queue, hist, Comment, Summary, summarySeq, Video, Api, Others>>

\* queue.js 176-188, the statement writes the row and the await ends; an
\* UPDATE that throws is logged and the handler goes on to its return
ClassifyWatermark(j, ok) ==
  /\ Running(j, "classify", "watermark_write")
  /\ IF ok
       THEN /\ Video' = [Video EXCEPT ![jobs[j].data.video_id] = local[j].stmt_time]
            /\ hist' = [hist EXCEPT ![j].wmWrites = @ + 1]
       ELSE UNCHANGED <<Video, hist>>
  /\ pc' = [pc EXCEPT ![j] = "return"]
  /\ UNCHANGED <<Queue, local, Comment, Summary, summarySeq, now, Api, Others>>

\* ------------------------------------------------------ jobType 'filter'
FilterNext(comments, i) == IF i <= Len(comments) THEN "check" ELSE "return"

\* queue.js 198-202: the reset of is_filtered
FilterReset(j, ok) ==
  /\ Running(j, "filter", "start")
  /\ IF ok
       THEN /\ Comment' = ResetFiltered(Comment, jobs[j].data.video_id)
            /\ pc' = [pc EXCEPT ![j] = "request"]
       ELSE /\ pc' = [pc EXCEPT ![j] = "throw"]
            /\ UNCHANGED Comment
  /\ UNCHANGED <<Queue, local, hist, Summary, summarySeq, Video, now, Api, Others>>

\* (fault) a rejected call puts back the flags the reset cleared
FilterPost_Undo(j, res) ==
  /\ Running(j, "filter", "request")
  /\ IF res = Rejected \/ ~Iterable(res)
       THEN pc' = [pc EXCEPT ![j] = "throw"] /\ UNCHANGED local
       ELSE /\ local' = [local EXCEPT ![j].comments = CommentsOf(res), ![j].i = 1,
                                      ![j].results = <<>>]
            /\ pc' = [pc EXCEPT ![j] = FilterNext(CommentsOf(res), 1)]
  /\ hist' = [hist EXCEPT ![j].n8n = IF res = Rejected THEN "rejected" ELSE "answered"]
  /\ Comment' = IF res = Rejected THEN hist[j].before ELSE Comment
  /\ UNCHANGED <<Queue, Summary, summarySeq, Video, now, Api, Others>>

\* queue.js 205-218: the webhook call
FilterPost(j, res) ==
  /\ Running(j, "filter", "request")
  /\ IF res = Rejected \/ ~Iterable(res)
       THEN pc' = [pc EXCEPT ![j] = "throw"] /\ UNCHANGED local
       ELSE /\ local' = [local EXCEPT ![j].comments = CommentsOf(res), ![j].i = 1,
                                      ![j].results = <<>>]
            /\ pc' = [pc EXCEPT ![j] = FilterNext(CommentsOf(res), 1)]
  /\ hist' = [hist EXCEPT ![j].n8n = IF res = Rejected THEN "rejected" ELSE "answered"]
  /\ UNCHANGED <<Queue, Store, Api, Others>>

\* queue.js 224-229: is comment c stored for this video?
FilterCheck(j, ok) ==
  /\ Running(j, "filter", "check")
  /\ LET c == local[j].comments[local[j].i]
         existingComment == ExistingComment(Comment, c.id, jobs[j].data.video_id)
     IN pc' = [pc EXCEPT ![j] = IF ~ok THEN "throw"
                                ELSE IF existingComment # {} THEN "update"
                                ELSE "fetch"]
  /\ UNCHANGED <<Queue, local, hist, Store, Api, Others>>

\* queue.js 231-236: the stored comment gets the flag of the answer
FilterUpdate(j, ok) ==
  /\ Running(j, "filter", "update")
  /\ LET c == local[j].comments[local[j].i]
         isFiltered == c.is_filtered = 1
     IN IF ok
          THEN /\ Comment' = UpdateFiltered(Comment, isFiltered, c.id, jobs[j].data.video_id)
               /\ local' = [local EXCEPT ![j].i = @ + 1]
               /\ pc' = [pc EXCEPT ![j] = FilterNext(local[j].comments, local[j].i + 1)]
          ELSE /\ pc' = [pc EXCEPT ![j] = "throw"]
               /\ UNCHANGED <<Comment, local>>
  /\ UNCHANGED <<Queue, hist, Summary, summarySeq, Video, now, Api, Others>>

\* (fault) a lookup without an item goes on to the insert, with blanks
FilterFetch_InsertAnyway(j, yt) ==
  /\ Running(j, "filter", "fetch")
  /\ IF yt # "error"
       THEN /\ pc' = [pc EXCEPT ![j] = "insert"]
            /\ local' = [local EXCEPT ![j].item =
                           IF yt = "ok" THEN Snippet(local[j].comments[local[j].i].id)
                           ELSE [authorDisplayName |-> "undefined",
                                 authorChannelId |-> "undefined",
                                 publishedAt |-> 0, parentId |-> "undefined"]]
       ELSE /\ local' = [local EXCEPT ![j].i = @ + 1]
            /\ pc' = [pc EXCEPT ![j] = FilterNext(local[j].comments, local[j].i + 1)]
  /\ UNCHANGED <<Queue, hist, Store, Api, Others>>

\* queue.js 239-246, 271-273: the metadata of a comment that is not stored
FilterFetch(j, yt) ==
  /\ Running(j, "filter", "fetch")
  /\ IF yt = "ok"
       THEN /\ pc' = [pc EXCEPT ![j] = "insert"]
            /\ local' = [local EXCEPT ![j].item = Snippet(local[j].comments[local[j].i].id)]
       ELSE /\ local' = [local EXCEPT ![j].i = @ + 1]
            /\ pc' = [pc EXCEPT ![j] = FilterNext(local[j].comments, local[j].i + 1)]
  /\ UNCHANGED <<Queue, hist, Store, Api, Others>>

\* queue.js 248-273: the insert of the new comment; a statement that throws
\* (the unique index, the database) is caught and the loop goes on
FilterInsert(j, ok) ==
  /\ Running(j, "filter", "insert")
  /\ LET c == local[j].comments[local[j].i]
         values == FilterValues(c, local[j].item, jobs[j].data.video_id)
         stored == ok /\ ~InsertThrows(Comment, values)
     IN /\ Comment' = IF stored THEN InsertComment(Comment, values) ELSE Comment
        /\ local' = [local EXCEPT ![j].i = @ + 1, ![j].item = NoItem,
                                  ![j].results = IF stored THEN Append(@, c.id) ELSE @]
        /\ pc' = [pc EXCEPT ![j] = FilterNext(local[j].comments, local[j].i + 1)]
  /\ UNCHANGED <<Queue, hist, Summary, summarySeq, Video, now, Api, Others>>

\* ------------------------------------------------------ specifications
YouTube == {"ok", "none", "error"}
Clock == 0..(Len(jobs) + 1)

\* Spec: the whole system on an empty database, every job type, the worker
\* running its jobs concurrently.  What is varied is the interleaving: the
\* answers of n8n name at most one comment, c1 (longer answers are walked
\* in SpecTwice and SpecFilter).
MaxInflight == 2        \* requests between two awaits at a time
N8nAnalysis == {Nested(Payload("T")), Nested(Null), Rejected}
N8nClassify == ListData(ClassifyEntries({"c1"}, {1}), 1) \cup {Rejected}
N8nFilter == ListData(FilterEntries({"c1"}), 1) \cup {Rejected}

Next ==
  \/ \E v \in Videos : PostAnalysis(v, MaxJobs, TRUE)
  \/ \E v \in Videos : PostClassify(v, MaxJobs, TRUE, TRUE)
  \/ \E r \in RowsOf(inflight) : PostClassifyAdd(r, TRUE)
  \/ \E v \in Videos, k \in Keywords : PostFilter(v, k, MaxJobs, TRUE)
  \/ \E j \in JobIds : Claim(j, FALSE)
  \/ \E j \in JobIds : Complete(j, FALSE)
  \/ \E j \in JobIds : Fail(j, FALSE)
  \/ \E j \in JobIds, res \in N8nAnalysis : AnalysisPost(j, res)
  \/ \E j \in JobIds, ok \in BOOLEAN : AnalysisRatio(j, ok)
  \/ \E j \in JobIds, ok \in BOOLEAN : AnalysisInsert(j, ok)
  \/ \E j \in JobIds, res \in N8nClassify : ClassifyPost(j, res)
  \/ \E j \in JobIds, yt \in YouTube : ClassifyMeta(j, yt)
  \/ \E j \in JobIds, ok \in BOOLEAN : ClassifyUpsert(j, ok)
  \/ \E j \in JobIds, t \in Clock : ClassifyWatermarkBegin(j, t)
  \/ \E j \in JobIds, ok \in BOOLEAN : ClassifyWatermark(j, ok)
  \/ \E j \in JobIds, ok \in BOOLEAN : FilterReset(j, ok)
  \/ \E j \in JobIds, res \in N8nFilter : FilterPost(j, res)
  \/ \E j \in JobIds, ok \in BOOLEAN : FilterCheck(j, ok)
  \/ \E j \in JobIds, ok \in BOOLEAN : FilterUpdate(j, ok)
  \/ \E j \in JobIds, yt \in YouTube : FilterFetch(j, yt)
  \/ \E j \in JobIds, ok \in BOOLEAN : FilterInsert(j, ok)

Spec == Init /\ [][Next]_vars

\* SpecPool: more analysis jobs than the worker has slots.
NextPool ==
  \/ \E v \in Videos : PostAnalysis(v, PoolJobs, TRUE)
  \/ \E j \in JobIds : Claim(j, FALSE)
  \/ \E j \in JobIds : Complete(j, FALSE)
  \/ \E j \in JobIds : Fail(j, FALSE)
  \/ \E j \in JobIds, res \in N8nAnalysis : AnalysisPost(j, res)
  \/ \E j \in JobIds, ok \in BOOLEAN : AnalysisRatio(j, ok)
  \/ \E j \in JobIds, ok \in BOOLEAN : AnalysisInsert(j, ok)

SpecPool == Init /\ [][NextPool]_vars

\* the stores a database can hold after classify and filter jobs have run:
\* per external id no row or one row, of any video, type and flag
StoredRows(cid, types) ==
  { [ClassifyValues([id |-> cid, text |-> "nice", comment_type |-> type],
                    Snippet(cid), v) EXCEPT !.is_filtered = f] :
      type \in types, v \in Videos, f \in BOOLEAN }
Absent == [absent |-> TRUE]
StoresOver(ids, types) ==
  { [r \in {choice[cid] : cid \in ids} \ {Absent} |-> 1] :
      choice \in {ch \in [ids -> UNION {StoredRows(cid, types) : cid \in ids} \cup {Absent}] :
                    \A cid \in ids : ch[cid] = Absent \/ ch[cid].youtube_comment_id = cid} }

InitStored(stores) ==
  /\ EmptyQueue
  /\ Comment \in stores
  /\ Summary = {}
  /\ summarySeq = 0
  /\ Video = [v \in Videos |-> DefaultClassifiedAt]
  /\ now = 1
  /\ response = NoResponse
  /\ inflight = <<>>
  /\ NoOthers

\* one job at a time
Alone == Active = {}
\* every job enqueued so far has ended
Idle == \A j \in JobIds : jobState[j] \in {"completed", "failed"}

\* SpecTwice: one classify job run again and again, each run after the
\* run before it has ended: the request names the video of the first run,
\* and n8n gives the answer it gave to the run before (or rejects the
\* request).  What varies from run to run is the outcome of the metadata
\* lookups and of the database statements.  Answers have up to MaxResp
\* comments; the finished runs are observed.
N8nClassifyAll == ListData(ClassifyEntries(CommentIds, {1, 2}), MaxResp) \cup {Rejected}
TwiceVideos == IF jobs = <<>> THEN Videos ELSE {jobs[1].videoId}
N8nTwice(j) ==
  IF j = 1 THEN N8nClassifyAll
  ELSE {res \in N8nClassifyAll \ {Rejected} : CommentsOf(res) = local[j - 1].comments}
       \cup {Rejected}
NextTwice ==
  \/ \E v \in TwiceVideos : Idle /\ inflight = <<>> /\ PostClassify(v, TwiceJobs, TRUE, TRUE)
  \/ \E r \in RowsOf(inflight) : PostClassifyAdd(r, TRUE)
  \/ \E j \in JobIds : Alone /\ Claim(j, TRUE)
  \/ \E j \in JobIds : Complete(j, TRUE)
  \/ \E j \in JobIds : Fail(j, TRUE)
  \/ \E j \in JobIds : \E res \in N8nTwice(j) : ClassifyPost(j, res)
  \/ \E j \in JobIds, yt \in YouTube : ClassifyMeta(j, yt)
  \/ \E j \in JobIds, ok \in BOOLEAN : ClassifyUpsert(j, ok)
  \/ \E j \in JobIds, t \in Clock : ClassifyWatermarkBegin(j, t)
  \/ \E j \in JobIds, ok \in BOOLEAN : ClassifyWatermark(j, ok)

SpecTwice == Init /\ [][NextTwice]_vars

\* SpecFilter: filter jobs, one at a time, on a database that holds comments
\* already; a job is observed from its start to its end.
N8nFilterAll == ListData(FilterEntries(CommentIds), MaxResp) \cup {Rejected}
NextFilter ==
  \/ \E v \in Videos, k \in Keywords : Idle /\ PostFilter(v, k, SoloJobs, TRUE)
  \/ \E j \in JobIds : Alone /\ Claim(j, TRUE)
  \/ \E j \in JobIds : Complete(j, FALSE)
  \/ \E j \in JobIds : Fail(j, FALSE)
  \/ \E j \in JobIds, ok \in BOOLEAN : FilterReset(j, ok)
  \/ \E j \in JobIds, res \in N8nFilterAll : FilterPost(j, res)
  \/ \E j \in JobIds, ok \in BOOLEAN : FilterCheck(j, ok)
  \/ \E j \in JobIds, ok \in BOOLEAN : FilterUpdate(j, ok)
  \/ \E j \in JobIds, yt \in YouTube : FilterFetch(j, yt)
  \/ \E j \in JobIds, ok \in BOOLEAN : FilterInsert(j, ok)

InitFilter == InitStored(StoresOver(CommentIds, {0, 1}))
SpecFilter == InitFilter /\ [][NextFilter]_vars

\* SpecAnalysis: an analysis job on a database that holds up to three
\* comments of every type.
AnalysisIds == {"c1", "c2", "c3"}
NextAnalysis ==
  \/ \E v \in Videos : PostAnalysis(v, SoloJobs, TRUE)
  \/ \E j \in JobIds : Claim(j, FALSE)
  \/ \E j \in JobIds : Complete(j, FALSE)
  \/ \E j \in JobIds : Fail(j, FALSE)
  \/ \E j \in JobIds, res \in N8nAnalysis : AnalysisPost(j, res)
  \/ \E j \in JobIds, ok \in BOOLEAN : AnalysisRatio(j, ok)
  \/ \E j \in JobIds, ok \in BOOLEAN : AnalysisInsert(j, ok)

InitAnalysis == InitStored(StoresOver(AnalysisIds, {0, 1, 2}))
SpecAnalysis == InitAnalysis /\ [][NextAnalysis]_vars

\* SpecLive: the system with a worker that is scheduled fairly and external
\* calls that all answer or throw.  The requests of a behaviour arrive in
\* one burst, before the worker claims the first job: up to LiveJobs
\* requests, the k-th analysis request for the k-th video, the classify and
\* filter requests for video v1 and among the first LiveJobs - 1.  Once a
\* job can take a step (be claimed, go on after an await, be marked
\* completed or failed), it takes it.
LiveVideos == Videos \cup {"v3"}
InitLive ==
  /\ EmptyQueue
  /\ Comment = <<>>
  /\ Summary = {}
  /\ summarySeq = 0
  /\ Video = [v \in LiveVideos |-> DefaultClassifiedAt]
  /\ now = 1
  /\ response = NoResponse
  /\ inflight = <<>>
  /\ NoOthers
Burst == \A j \in JobIds : jobState[j] = "waiting"
LiveVideo(k) == IF k = 1 THEN "v1" ELSE IF k = 2 THEN "v2" ELSE "v3"
JobStep(j) ==
  \/ Claim(j, FALSE)
  \/ Complete(j, FALSE)
  \/ Fail(j, FALSE)
  \/ \E res \in N8nAnalysis : AnalysisPost(j, res)
  \/ \E ok \in BOOLEAN : AnalysisRatio(j, ok)
  \/ \E ok \in BOOLEAN : AnalysisInsert(j, ok)
  \/ \E res \in N8nClassify : ClassifyPost(j, res)
  \/ \E yt \in YouTube : ClassifyMeta(j, yt)
  \/ \E ok \in BOOLEAN : ClassifyUpsert(j, ok)
  \/ \E t \in Clock : ClassifyWatermarkBegin(j, t)
  \/ \E ok \in BOOLEAN : ClassifyWatermark(j, ok)
  \/ \E ok \in BOOLEAN : FilterReset(j, ok)
  \/ \E res \in N8nFilter : FilterPost(j, res)
  \/ \E ok \in BOOLEAN : FilterCheck(j, ok)
  \/ \E ok \in BOOLEAN : FilterUpdate(j, ok)
  \/ \E yt \in YouTube : FilterFetch(j, yt)
  \/ \E ok \in BOOLEAN : FilterInsert(j, ok)
NextLive ==
  \/ Burst /\ PostAnalysis(LiveVideo(Len(jobs) + 1), LiveJobs, TRUE)
  \/ Burst /\ PostClassify("v1", LiveJobs - 1, TRUE, TRUE)
  \/ \E r \in RowsOf(inflight) : Burst /\ PostClassifyAdd(r, TRUE)
  \/ \E k \in Keywords : Burst /\ PostFilter("v1", k, LiveJobs - 1, TRUE)
  \/ \E j \in JobIds : JobStep(j)
Fairness == \A j \in 1..LiveJobs : WF_vars(j \in JobIds /\ JobStep(j))
SpecLive == InitLive /\ [][NextLive]_vars /\ Fairness

\* SpecBurst: SpecLive with bursts of up to BurstJobs requests, one more
\* than the worker has slots, so that the last job of a full burst waits
\* until a slot is free.  A burst of more than CONCURRENCY jobs is one of
\* analysis jobs (the fourth for video v3 again); every outcome of every
\* call occurs, as in SpecLive.
OnlyAnalysis == \A j \in JobIds : jobs[j].jobType = "analysis"
NextBurst ==
  \/ Burst /\ (Len(jobs) + Adding < CONCURRENCY \/ (OnlyAnalysis /\ Adding = 0))
           /\ PostAnalysis(LiveVideo(Len(jobs) + 1), BurstJobs, TRUE)
  \/ Burst /\ PostClassify("v1", CONCURRENCY - 1, TRUE, TRUE)
  \/ \E r \in RowsOf(inflight) : Burst /\ PostClassifyAdd(r, TRUE)
  \/ \E k \in Keywords : Burst /\ PostFilter("v1", k, CONCURRENCY - 1, TRUE)
  \/ \E j \in JobIds : JobStep(j)
SpecBurst ==
  InitLive /\ [][NextBurst]_vars
    /\ \A j \in 1..BurstJobs : WF_vars(j \in JobIds /\ JobStep(j))

\* SpecApi: the enqueue and status endpoints and the worker together.  Up
\* to ApiJobs requests are enqueued, each call of the queue or the database
\* answers or throws, and the status of any job id (the ids of the queue and
\* one more) is asked for at any time (under the path of video v1, whatever
\* the video of the job); up to MaxInflight requests stand between two
\* awaits at a time.  The worker runs one job at a time, and the n8n
\* webhooks of classify and filter are down: what these handlers do with an
\* answer is the matter of Spec, SpecTwice and SpecFilter.
StatusIds == 1..(Len(jobs) + 1)
NextApi ==
  \/ \E v \in Videos, ok \in BOOLEAN : PostAnalysis(v, ApiJobs, ok)
  \/ \E v \in Videos, apiKey \in BOOLEAN, ok \in BOOLEAN :
       InFlight < MaxInflight /\ PostClassify(v, ApiJobs, apiKey, ok)
  \/ \E r \in RowsOf(inflight), ok \in BOOLEAN : PostClassifyAdd(r, ok)
  \/ \E v \in Videos, k \in Keywords \cup {NoKeyword}, ok \in BOOLEAN :
       PostFilter(v, k, ApiJobs, ok)
  \/ \E type \in JobTypes, id \in StatusIds, ok \in BOOLEAN :
       InFlight < MaxInflight /\ GetStatus(type, "v1", id, ok)
  \/ \E r \in RowsOf(inflight), ok \in BOOLEAN : GetStatusState(r, ok)
  \/ \E j \in JobIds : Alone /\ Claim(j, FALSE)
  \/ \E j \in JobIds : Complete(j, FALSE)
  \/ \E j \in JobIds : Fail(j, FALSE)
  \/ \E j \in JobIds, res \in N8nAnalysis : AnalysisPost(j, res)
  \/ \E j \in JobIds, ok \in BOOLEAN : AnalysisRatio(j, ok)
  \/ \E j \in JobIds, ok \in BOOLEAN : AnalysisInsert(j, ok)
  \/ \E j \in JobIds : ClassifyPost(j, Rejected)
  \/ \E j \in JobIds, ok \in BOOLEAN : FilterReset(j, ok)
  \/ \E j \in JobIds : FilterPost(j, Rejected)
SpecApi == Init /\ [][NextApi]_vars

\* SpecSummary: analysis jobs, run one at a time, and requests that delete
\* summaries, up to MaxInflight of them between their two awaits at a time.
SummaryIds == 1..SummaryJobs
NextSummary ==
  \/ \E v \in Videos : PostAnalysis(v, SummaryJobs, TRUE)
  \/ \E j \in JobIds : Alone /\ Claim(j, FALSE)
  \/ \E j \in JobIds : Complete(j, FALSE)
  \/ \E j \in JobIds : Fail(j, FALSE)
  \/ \E j \in JobIds, res \in N8nAnalysis : AnalysisPost(j, res)
  \/ \E j \in JobIds, ok \in BOOLEAN : AnalysisRatio(j, ok)
  \/ \E j \in JobIds, ok \in BOOLEAN : AnalysisInsert(j, ok)
  \/ \E v \in Videos, id \in SummaryIds, ok \in BOOLEAN :
       InFlight < MaxInflight /\ DeleteSummary(v, id, ok)
  \/ \E r \in RowsOf(inflight), ok \in BOOLEAN : DeleteSummaryDelete(r, ok)
SpecSummary == Init /\ [][NextSummary]_vars

\* SpecShapes: analysis jobs, one after the other, on a database that holds
\* up to two positive or negative comments and that no job changes, with
\* every shape of answer of AnalysisData.
NextShapes ==
  \/ \E v \in Videos : Idle /\ PostAnalysis(v, ShapeJobs, TRUE)
  \/ \E j \in JobIds : Claim(j, FALSE)
  \/ \E j \in JobIds : Complete(j, FALSE)
  \/ \E j \in JobIds : Fail(j, FALSE)
  \/ \E j \in JobIds, res \in AnalysisData \cup {Rejected} : AnalysisPost(j, res)
  \/ \E j \in JobIds, ok \in BOOLEAN : AnalysisRatio(j, ok)
  \/ \E j \in JobIds, ok \in BOOLEAN : AnalysisInsert(j, ok)
InitShapes == InitStored(StoresOver(CommentIds, {1, 2}))
SpecShapes == InitShapes /\ [][NextShapes]_vars

\* SpecOthers: up to RegRequests registration requests, handled
\* concurrently (each await gives way to the other requests), and removals.
\* User 1 has a channel of their own, UCa, and has registered UCb as a
\* competitor before; YouTube knows UCb by its id and by its handle, UCc
\* and UCd by their ids.  A removal names an id the serial of
\* "Other_channel" has given out.  Users log in with Google, one login
\* between two awaits at a time: the account of user 1 has channel UCa, the
\* account of user 2 channel UCc.  The title of a channel has the length
\* "channel_name" holds, or one character more.
Urls ==
  {NoUrl, <<"example.com", "channel">>, <<"youtube.com", "@", "b">>}
    \cup {<<"youtube.com", "channel", id>> : id \in ChannelIds}
NextOthers ==
  \/ \E u \in Users, url \in Urls : PostOthers(u, url, RegRequests)
  \/ \E r \in DOMAIN registering, ok \in BOOLEAN : OthersCount(r, ok)
  \/ \E r \in DOMAIN registering, yt \in YouTube : OthersHandle(r, yt)
  \/ \E r \in DOMAIN registering, found \in Channel \cup {NoChannel}, ok \in BOOLEAN :
       OthersFindChannel(r, found, ok)
  \/ \E r \in DOMAIN registering, yt \in YouTube, title \in TitleLengths :
       OthersInfo(r, yt, title)
  \/ \E r \in DOMAIN registering, ok \in BOOLEAN : OthersCreateChannel(r, ok)
  \/ \E r \in DOMAIN registering, ok \in BOOLEAN : OthersMyChannel(r, ok)
  \/ \E r \in DOMAIN registering : OthersVideos(r)
  \/ \E r \in DOMAIN registering, ok \in BOOLEAN : OthersCreate(r, ok)
  \/ \E u \in Users, id \in 1..otherSeq : DeleteOthers(u, id, TRUE)
  \/ \E u \in Users, title \in TitleLengths, ok \in BOOLEAN :
       InFlight < Logins /\ channelSeq < MaxChannelSeq /\ GoogleLogin(u, title, ok)
  \/ \E r \in RowsOf(inflight), ok \in BOOLEAN : GoogleExists(r, ok)
  \/ \E r \in RowsOf(inflight), ok \in BOOLEAN : GoogleInsert(r, ok)
  \/ \E r \in RowsOf(inflight) : GoogleSnapshot(r)
InitOthers ==
  /\ EmptyQueue
  /\ Comment = <<>>
  /\ Summary = {}
  /\ summarySeq = 0
  /\ Video = [v \in Videos |-> DefaultClassifiedAt]
  /\ now = 1
  /\ response = NoResponse
  /\ inflight = <<>>
  /\ Other_channel = {[id |-> 1, user_id |-> 1, channel_id |-> 2]}
  /\ otherSeq = 1
  /\ registering = <<>>
  /\ Channel = {[id |-> 1, user_id |-> 1, youtube_channel_id |-> "UCa"],
                [id |-> 2, user_id |-> NULL, youtube_channel_id |-> "UCb"]}
  /\ channelSeq = 2
SpecOthers == InitOthers /\ [][NextOthers]_vars

\* SpecPair: two filter jobs of video v1, one per keyword, that the worker
\* may run at the same time (concurrency 3), on a database that holds
\* comments of the video already; n8n answers each with a plain array of up
\* to PairResp comments or rejects the request; finished jobs are observed.
PairKeywords == {"k1", "k2"}
N8nPair ==
  {res \in ListData(FilterEntries(CommentIds), PairResp) : res.shape = "array"}
  \cup {Rejected}
Asked(k) == \E j \in JobIds : jobs[j].data.filtering_keyword = k
NextPair ==
  \/ \E k \in PairKeywords : ~Asked(k) /\ PostFilter("v1", k, PairJobs, TRUE)
  \/ \E j \in JobIds : Claim(j, TRUE)
  \/ \E j \in JobIds : Complete(j, TRUE)
  \/ \E j \in JobIds : Fail(j, TRUE)
  \/ \E j \in JobIds, ok \in BOOLEAN : FilterReset(j, ok)
  \/ \E j \in JobIds, res \in N8nPair : FilterPost(j, res)
  \/ \E j \in JobIds, ok \in BOOLEAN : FilterCheck(j, ok)
  \/ \E j \in JobIds, ok \in BOOLEAN : FilterUpdate(j, ok)
  \/ \E j \in JobIds, yt \in YouTube : FilterFetch(j, yt)
  \/ \E j \in JobIds, ok \in BOOLEAN : FilterInsert(j, ok)
InitPair ==
  InitStored({st \in StoresOver(CommentIds, {1}) :
                \A r \in DOMAIN st : r.video_id = "v1"})
SpecPair == InitPair /\ [][NextPair]_vars

\* SpecReclassify: one classify job on a database that earlier classify
\* and filter jobs have filled (rows of any video, with any flag); the job
\* is observed from its start to its end.
NextReclassify ==
  \/ \E v \in Videos : PostClassify(v, SoloJobs, TRUE, TRUE)
  \/ \E r \in RowsOf(inflight) : PostClassifyAdd(r, TRUE)
  \/ \E j \in JobIds : Claim(j, TRUE)
  \/ \E j \in JobIds : Complete(j, TRUE)
  \/ \E j \in JobIds : Fail(j, TRUE)
  \/ \E j \in JobIds, res \in N8nClassifyAll : ClassifyPost(j, res)
  \/ \E j \in JobIds, yt \in YouTube : ClassifyMeta(j, yt)
  \/ \E j \in JobIds, ok \in BOOLEAN : ClassifyUpsert(j, ok)
  \/ \E j \in JobIds, t \in Clock : ClassifyWatermarkBegin(j, t)
  \/ \E j \in JobIds, ok \in BOOLEAN : ClassifyWatermark(j, ok)
SpecReclassify == InitFilter /\ [][NextReclassify]_vars

\* SpecComments: the comment endpoints and the worker together.  One
\* classify or filter job of video v1 runs on a database that holds no
\* comment or comment c1 of the video, while requests delete comments of
\* the video and switch their type, up to MaxInflight of them between two
\* awaits at a time.
CommentLists == {<<>>, <<"c1">>, <<"c2", "c1">>}
NextComments ==
  \/ PostClassify("v1", EditJobs, TRUE, TRUE)
  \/ \E r \in RowsOf(inflight) : PostClassifyAdd(r, TRUE)
  \/ \E k \in Keywords : PostFilter("v1", k, EditJobs, TRUE)
  \/ \E j \in JobIds : Claim(j, FALSE)
  \/ \E j \in JobIds : Complete(j, FALSE)
  \/ \E j \in JobIds : Fail(j, FALSE)
  \/ \E j \in JobIds, res \in N8nClassify : ClassifyPost(j, res)
  \/ \E j \in JobIds, yt \in YouTube : ClassifyMeta(j, yt)
  \/ \E j \in JobIds, ok \in BOOLEAN : ClassifyUpsert(j, ok)
  \/ \E j \in JobIds, t \in Clock : ClassifyWatermarkBegin(j, t)
  \/ \E j \in JobIds, ok \in BOOLEAN : ClassifyWatermark(j, ok)
  \/ \E j \in JobIds, ok \in BOOLEAN : FilterReset(j, ok)
  \/ \E j \in JobIds, res \in N8nFilter : FilterPost(j, res)
  \/ \E j \in JobIds, ok \in BOOLEAN : FilterCheck(j, ok)
  \/ \E j \in JobIds, ok \in BOOLEAN : FilterUpdate(j, ok)
  \/ \E j \in JobIds, yt \in YouTube : FilterFetch(j, yt)
  \/ \E j \in JobIds, ok \in BOOLEAN : FilterInsert(j, ok)
  \/ \E ids \in CommentLists, token \in BOOLEAN :
       InFlight < MaxInflight /\ DeleteComments("v1", ids, token)
  \/ \E r \in RowsOf(inflight), ok \in BOOLEAN : DeleteCommentsModerate(r, ok)
  \/ \E r \in RowsOf(inflight), ok \in BOOLEAN : DeleteCommentsDelete(r, ok)
  \/ \E ids \in CommentLists : InFlight < MaxInflight /\ PutComments("v1", ids)
  \/ \E r \in RowsOf(inflight), ok \in BOOLEAN : PutCommentsCheck(r, ok)
  \/ \E r \in RowsOf(inflight), ok \in BOOLEAN : PutCommentsUpdate(r, ok)
InitComments ==
  InitStored({st \in StoresOver({"c1"}, {1}) :
                \A r \in DOMAIN st : r.video_id = "v1" /\ ~r.is_filtered})
SpecComments == InitComments /\ [][NextComments]_vars

\* =================================================================== claims
JobVideo(j) == jobs[j].data.video_id
AtReturn(j, type) == Running(j, type, "return")
\* the ids an answer names, and the last entry it gives for an id
IdsOf(comments) == {comments[k].id : k \in 1..Len(comments)}
LastEntry(comments, cid) ==
  comments[CHOOSE k \in 1..Len(comments) :
             /\ comments[k].id = cid
             /\ \A m \in (k + 1)..Len(comments) : comments[m].id # cid]

\* C1: in every reachable state, whatever classify and filter jobs have run
\* and however they interleaved, table "Comment" holds at most one row for
\* an external comment id.
C1_NoDuplicateComment ==
  \A cid \in CommentIds : CopiesOf(Comment, cid) <= 1
\* a filter job found c1 missing, fetched its metadata, and by the time it
\* inserts another job has stored c1
C1_Witness ==
  \E j \in JobIds :
    /\ Running(j, "filter", "insert")
    /\ UniqueViolation(Comment, local[j].comments[local[j].i].id)

\* C2: a classify job that is run a second time, with the same answer of
\* the classification service and with every returned comment looked up and
\* stored in both runs, leaves exactly one row per returned external id, and
\* author, text, comment_type, publish date, parent flag and video id of
\* every row are after the second run what they were after the first.
C2Fields(r) ==
  [youtube_comment_id |-> r.youtube_comment_id, author_name |-> r.author_name,
   comment |-> r.comment, comment_type |-> r.comment_type,
   comment_date |-> r.comment_date, is_parent |-> r.is_parent, video_id |-> r.video_id]
C2View(B) == [v \in {C2Fields(r) : r \in RowsOf(B)} |->
                SumCounts(B, {r \in RowsOf(B) : C2Fields(r) = v})]
AllPersisted(j) ==
  /\ local[j].comments # <<>>
  /\ Len(local[j].results) = Len(local[j].comments)
\* job j has walked its whole answer and job j-1 was the same job, completed
SecondRun(j) ==
  /\ j > 1
  /\ jobs[j].jobType = "classify" /\ jobs[j - 1].jobType = "classify"
  /\ JobVideo(j) = JobVideo(j - 1)
  /\ jobState[j - 1] = "completed"
  /\ jobState[j] = "active" /\ pc[j] \in {"watermark", "return"}
  /\ local[j].comments = local[j - 1].comments
  /\ AllPersisted(j - 1) /\ AllPersisted(j)
C2_ClassifyIdempotent ==
  \A j \in JobIds :
    SecondRun(j) =>
      /\ \A cid \in IdsOf(local[j].comments) : CopiesOf(Comment, cid) = 1
      /\ C2View(Comment) = C2View(hist[j].before)
C2_Witness ==
  \E j \in JobIds : SecondRun(j) /\ Len(local[j].comments) = 2

\* C3 as the specification states it: a classify job whose handler has
\* returned and that persisted nothing finds the watermark of its video as
\* it was when the handler started; one that persisted a comment has
\* updated the watermark, to a value not before the previous one.
C3_Original ==
  \A j \in JobIds :
    AtReturn(j, "classify") =>
      /\ local[j].results = <<>> => Video[JobVideo(j)] = hist[j].wmAtStart
      /\ local[j].results # <<>> =>
           hist[j].wmWrites > 0 /\ Video[JobVideo(j)] >= hist[j].wmAtStart

\* C3 (amended): a classify job that persisted no comment returns without
\* writing the watermark.  A job that persisted a comment issues one UPDATE
\* before it returns: when the statement succeeds the watermark becomes the
\* statement's NOW(), which is not before the value the watermark had when
\* the handler started; when it throws, the watermark is left as it is and
\* the handler returns all the same.
C3_Step(j) ==
  /\ (pc[j] # "return" /\ pc'[j] = "return" /\ local'[j].results = <<>>) =>
       pc[j] # "watermark_write" /\ hist'[j].wmWrites = 0 /\ Video' = Video
  /\ (pc[j] # "return" /\ pc'[j] = "return" /\ local'[j].results # <<>>) =>
       /\ pc[j] = "watermark_write"
       /\ \/ /\ hist'[j].wmWrites = 1
             /\ Video'[JobVideo(j)] = local[j].stmt_time
             /\ Video'[JobVideo(j)] >= hist[j].wmAtStart
          \/ /\ hist'[j].wmWrites = 0
             /\ Video' = Video
  /\ (pc[j] = "watermark_write" /\ pc'[j] # pc[j]) => pc'[j] = "return"
C3_Watermark ==
  [][\A j \in JobIds : jobs[j].jobType = "classify" => C3_Step(j)]_vars
C3_Witness ==
  \E j \in JobIds :
    /\ AtReturn(j, "classify")
    /\ local[j].results # <<>>
    /\ hist[j].wmWrites = 1
    /\ Video[JobVideo(j)] > hist[j].wmAtStart

\* C4 as the specification states it: in every step the watermark of every
\* video stays or grows, and a step that changes it is the UPDATE of a
\* classify job for that video that has stored at least one comment in this
\* run.
C4_Original ==
  [][\A v \in Videos :
       /\ Video'[v] >= Video[v]
       /\ Video'[v] # Video[v] =>
            \E j \in JobIds :
              /\ Running(j, "classify", "watermark_write")
              /\ JobVideo(j) = v
              /\ pc'[j] = "return"
              /\ Len(local[j].results) > 0]_vars

\* C5: when the handler of a filter job that ran alone has returned, every
\* row of its video that the answer names has the flag the answer gives it
\* (is_filtered = 1 is true), and every other row of the video is not
\* filtered.
C5_FilterFlags ==
  \A j \in JobIds :
    AtReturn(j, "filter") =>
      \A r \in CommentRows :
        r.video_id = JobVideo(j) =>
          IF r.youtube_comment_id \in IdsOf(local[j].comments)
            THEN r.is_filtered =
                   (LastEntry(local[j].comments, r.youtube_comment_id).is_filtered = 1)
            ELSE r.is_filtered = FALSE
\* the job has set the flag of a row the answer names and has reset a row
\* that was filtered before and that the answer does not name
C5_Witness ==
  \E j \in JobIds :
    /\ AtReturn(j, "filter")
    /\ \E r \in CommentRows :
         /\ r.video_id = JobVideo(j) /\ r.is_filtered
         /\ r.youtube_comment_id \in IdsOf(local[j].comments)
    /\ \E r \in RowsOf(hist[j].before) :
         /\ r.video_id = JobVideo(j) /\ r.is_filtered
         /\ r.youtube_comment_id \notin IdsOf(local[j].comments)

\* C6: the positive_ratio of the summary row an analysis job inserts is
\* NULL exactly when the video had no unfiltered row of type 1 or 2 when the
\* ratio was computed; otherwise it is positive/(positive+negative) in
\* percent, rounded to the nearest tenth, and lies between 0 and 100.
\* (Values are in tenths: x is within half a tenth of the quotient; of the
\* two tenths next to an exact half the doubles decide which is stored.)
NearestTenth(x, positive, negative) ==
  LET n == positive + negative
  IN 2 * n * x - n <= 2000 * positive /\ 2000 * positive <= 2 * n * x + n
C6_Ratio ==
  \A j \in JobIds : \A s \in Summary :
    (AtReturn(j, "analysis") /\ s.id \in hist[j].summaries) =>
      LET b == hist[j].basis
      IN /\ s.positive_ratio = NULL <=> b.positive + b.negative = 0
         /\ b.positive + b.negative > 0 =>
              /\ NearestTenth(s.positive_ratio, b.positive, b.negative)
              /\ s.positive_ratio >= 0 /\ s.positive_ratio <= 1000
\* two positive rows and a negative one: 66.7
C6_Witness ==
  \E j \in JobIds : \E s \in Summary :
    /\ AtReturn(j, "analysis") /\ s.id \in hist[j].summaries
    /\ hist[j].basis = [positive |-> 2, negative |-> 1]
    /\ s.positive_ratio = 667

\* C7: a step of an analysis job leaves every summary row as it is, and
\* adds at most one row, of the job's video; a job that is marked completed
\* has added exactly one row, a job that is marked failed none.
C7_Step(j) ==
  /\ pc'[j] # pc[j] =>
       /\ Summary \subseteq Summary'
       /\ \A s \in Summary' \ Summary :
            s.video_id = jobs[j].videoId /\ \A q \in Summary : q.id # s.id
  /\ (jobState[j] = "active" /\ jobState'[j] = "completed") =>
       Cardinality(hist[j].summaries) = 1 /\ hist[j].summaries \subseteq {s.id : s \in Summary}
  /\ (jobState[j] = "active" /\ jobState'[j] = "failed") =>
       hist[j].summaries = {}
C7_OneSummary ==
  [][\A j \in JobIds : jobs[j].jobType = "analysis" => C7_Step(j)]_vars
\* a second analysis job of a video has added its row next to the first
C7_Witness ==
  \E j \in JobIds :
    /\ AtReturn(j, "analysis")
    /\ \E s \in Summary : \E q \in Summary :
         /\ s.id \in hist[j].summaries /\ q.id \notin hist[j].summaries
         /\ s.video_id = q.video_id

\* C8: a job enters the queue waiting; its state changes only from waiting
\* to active, from active to completed when its handler has returned, and
\* from active to failed when its handler has thrown; a completed or failed
\* job keeps its state.
C8_Move(j) ==
  \/ jobState'[j] = jobState[j]
  \/ jobState[j] = "waiting" /\ jobState'[j] = "active"
  \/ jobState[j] = "active" /\ jobState'[j] = "completed" /\ pc[j] = "return"
  \/ jobState[j] = "active" /\ jobState'[j] = "failed" /\ pc[j] = "throw"
C8_Lifecycle ==
  [][\A j \in 1..Len(jobState') :
       IF j \in 1..Len(jobState) THEN C8_Move(j) ELSE jobState'[j] = "waiting"]_vars
C8_Witness ==
  \E i \in JobIds : \E j \in JobIds :
    jobState[i] = "completed" /\ jobState[j] = "failed"

\* C9: at most 3 jobs are active at a time, however many are waiting.
C9_AtMostThree == Cardinality(Active) <= 3
C9_Witness ==
  /\ Cardinality(Active) = 3
  /\ \E j \in JobIds : jobState[j] = "waiting"

\* C10: the step in which a handler throws and the step that marks its job
\* failed change nothing but that job: the state, the handler position and
\* variables of every other job and every table stay as they are, so the
\* other active jobs go on as without the throw.
OnlyJob(j) ==
  /\ \A i \in JobIds \ {j} :
       /\ jobState'[i] = jobState[i] /\ pc'[i] = pc[i]
       /\ local'[i] = local[i] /\ hist'[i] = hist[i]
  /\ jobs' = jobs
  /\ Store' = Store
C10_Step(j) ==
  /\ (pc[j] # "throw" /\ pc'[j] = "throw") => OnlyJob(j) /\ jobState'[j] = "active"
  /\ (jobState[j] = "active" /\ jobState'[j] = "failed") =>
       OnlyJob(j) /\ pc[j] = "throw"
C10_ThrowIsLocal == [][\A j \in JobIds : C10_Step(j)]_vars
\* a job has failed while a job claimed before it is still running
C10_Witness ==
  \E i \in JobIds : \E j \in JobIds :
    i < j /\ jobState[j] = "failed" /\ jobState[i] = "active" /\ pc[i] # "throw"

\* C11 as the specification states it: with a fairly scheduled worker and
\* external calls that all answer or throw, every job that is in the queue
\* is eventually completed or failed; and from the moment three analysis jobs for three different videos stand
\* enqueued together, eventually all three are completed, unless an
\* external call of one of them (the webhook, the ratio query, the INSERT)
\* has thrown.
Ended(j, state) == j \in JobIds /\ jobState[j] = state
Finished(j) == Ended(j, "completed") \/ Ended(j, "failed")
ThreeAnalysis ==
  /\ Len(jobs) >= 3
  /\ \A j \in 1..3 : jobs[j].jobType = "analysis"
  /\ Cardinality({jobs[j].videoId : j \in 1..3}) = 3
EnqueuedTogether == ThreeAnalysis /\ \A j \in 1..3 : jobState[j] = "waiting"
AllCompleted == \A j \in 1..3 : Ended(j, "completed")
AllFinished == \A j \in 1..BurstJobs : (j \in JobIds) ~> Finished(j)
\* the handler of the job stands at its throw
Thrown(j) == j \in JobIds /\ jobState[j] = "active" /\ pc[j] = "throw"
\* ... because the webhook answered null in the place of the payload
NullAnswered(j) ==
  Thrown(j) /\ hist[j].n8n = "answered" /\ AnalysisThrows(hist[j].answer)
\* ... because one of its external calls threw
CallThrew(j) == Thrown(j) /\ ~NullAnswered(j)
JobMoves(j) == pc'[j] # pc[j] \/ jobState'[j] # jobState[j]
C12_AtThrow(j) ==
  hist[j].n8n = "rejected" =>
    /\ jobState[j] = "active" /\ pc[j] = "throw"
    /\ jobs[j].jobType = "classify" =>
         local[j].results = <<>> /\ hist[j].wmWrites = 0
C12_Step(j) ==
  /\ (hist[j].n8n = "none" /\ hist'[j].n8n = "rejected") =>
       /\ Store' = Store
       /\ jobs[j].jobType = "classify" => pc[j] = "start"
  /\ (hist[j].n8n = "rejected" /\ JobMoves(j)) =>
       Store' = Store /\ jobState'[j] = "failed"
C12_RejectedFails ==
  /\ [](\A j \in JobIds : C12_AtThrow(j))
  /\ [][\A j \in JobIds : C12_Step(j)]_vars
  /\ \A j \in 1..LiveJobs :
       (j \in JobIds /\ hist[j].n8n = "rejected") ~> Ended(j, "failed")
\* the request of a classify job was rejected after another job of the
\* burst has stored a comment
C12_Witness ==
  \E j \in JobIds :
    /\ jobs[j].jobType = "classify"
    /\ hist[j].n8n = "rejected"
    /\ CommentRows # {}

\* C13 as the specification states it: in a classify or filter job, the
\* step of a metadata lookup and the step of the insert or update statement
\* of one comment never take the handler to the throw, whatever their
\* outcome: the loop goes on with the next comment, or the handler returns
\* (for a classify job by way of the watermark UPDATE).
PerComment == {"meta", "upsert", "fetch", "insert", "update"}
C13_Step(j) ==
  (pc[j] \in PerComment /\ JobMoves(j)) =>
    /\ jobState'[j] = "active"
    /\ pc'[j] # "throw"
    /\ \/ pc'[j] \in {"upsert", "insert"} /\ local'[j].i = local[j].i
       \/ local'[j].i = local[j].i + 1
C13_Original ==
  [][\A j \in JobIds : jobs[j].jobType \in {"classify", "filter"} => C13_Step(j)]_vars

\* ---------------------------------------------------------------- C14
\* the response is a 200 of an enqueue endpoint
Enqueued(r) == r.status = 200 /\ r.request.endpoint \in JobTypes
\* the step appends exactly one job, which waits, and touches no other job
AppendsOne ==
  /\ Len(jobs') = Len(jobs) + 1
  /\ SubSeq(jobs', 1, Len(jobs)) = jobs
  /\ SubSeq(jobState', 1, Len(jobs)) = jobState
  /\ SubSeq(pc', 1, Len(jobs)) = pc
  /\ jobState'[Len(jobs')] = "waiting"
  /\ pc'[Len(jobs')] = "idle"
C14_Step ==
  (jobs' # jobs \/ (response' # response /\ Enqueued(response'))) =>
     /\ Enqueued(response')
     /\ AppendsOne
     /\ LET job == jobs'[Len(jobs')]
            request == response'.request
        IN /\ job.jobType = request.endpoint
           /\ job.videoId = request.video_id
           /\ job.data.video_id = request.video_id
           /\ response'.body = [success |-> TRUE, job_id |-> Len(jobs')]
     /\ Store' = Store
\* C14: a step in which an enqueue endpoint answers 200, and every step that
\* changes the list of jobs, appends exactly one job, of the type of the
\* endpoint and the video of the request, answers with the id of that job
\* while the job is still waiting (no step of its handler has run), and
\* writes nothing to the tables.
C14_EnqueueAppendsOne == [][C14_Step]_vars
\* a classify request for v2 was answered with the id of its job, and the
\* job has failed since
C14_Witness ==
  /\ Enqueued(response)
  /\ response.request = Request("classify", "v2")
  /\ jobState[response.body.job_id] = "failed"
  /\ jobs[response.body.job_id].jobType = "classify"

\* ---------------------------------------------------------------- C15
\* the response is the error of an enqueue endpoint whose try block threw
EnqueueError(r) == r.status = 500 /\ r.request.endpoint \in JobTypes
C15_Answered ==
  Enqueued(response) =>
    /\ response.body.success
    /\ response.body.job_id \in JobIds
    /\ jobs[response.body.job_id].jobType = response.request.endpoint
C15_Step ==
  /\ (response' # response /\ EnqueueError(response')) =>
        UNCHANGED <<jobs, jobState, pc, local, Store>>
  /\ (response' # response /\ response'.request.endpoint \in JobTypes /\ jobs' = jobs) =>
        (response'.status \in {400, 500} /\ "job_id" \notin DOMAIN response'.body)
\* C15: a request whose call of the queue (or, for classify, of the
\* database before it) throws is answered with an error (500, no
\* success:true, no job id) in that same step and leaves the queue as it
\* was: no job is added; and whenever the last answer of an enqueue endpoint
\* is a 200 with success:true and a job id, the queue holds a job of that
\* id, of the type of the endpoint.
C15_EnqueueFailure == [](C15_Answered) /\ [][C15_Step]_vars
\* an analysis request was answered with the error while the queue holds
\* one job, of another type: none was added for the request
C15_Witness ==
  /\ EnqueueError(response)
  /\ response.request = Request("analysis", "v1")
  /\ Len(jobs) = 1
  /\ jobs[1].jobType = "filter"

\* ---------------------------------------------------------------- C16
\* the response is the answer to a status request
StatusAnswer(r) == r.status # 0 /\ r.request.endpoint = "status"
\* the status requests that stand between their two awaits
StatusWaiting(B) == {r \in RowsOf(B) : r.request.endpoint = "status"}
\* a step of a status request: it goes from Job.fromId to job.getState, or
\* it answers
StatusStep ==
  \/ response' # response /\ StatusAnswer(response')
  \/ StatusWaiting(inflight') # StatusWaiting(inflight)
C16_Step ==
  StatusStep => UNCHANGED <<jobs, jobState, pc, local, hist, Store>>
\* C16: every step of a status request, the one that looks the job up and
\* the one that answers (200, 404 or 500), leaves the jobs of the queue, the
\* state of every job, the handlers and every table as they were; only the
\* response and the request's own position are new.
C16_StatusIsPure == [][C16_Step]_vars
\* the status of job 2 was asked for while its handler was between two
\* awaits, and the job is where it was
C16_Witness ==
  /\ StatusAnswer(response)
  /\ response.status = 200
  /\ response.body.job_id = 2
  /\ response.body.status = "active"
  /\ Len(jobs) = 2
  /\ jobState[2] = "active"
  /\ pc[2] = "ratio"
  /\ Summary # {}

\* ---------------------------------------------------------------- C17
JobStates == {"waiting", "active", "completed", "failed"}
\* what the status endpoint answers when the queue answers: 200 and the
\* state the job has at that moment, or 404 for an id the queue does not hold
Reported(r) ==
  LET id == r.request.job_id
  IN IF id \in JobIds
       THEN /\ r.status = 200
            /\ r.body = [success |-> TRUE, status |-> jobState[id], job_id |-> id,
                         video_id |-> r.request.video_id]
            /\ r.body.status \in JobStates
       ELSE r.status = 404
\* C17 as the specification states it: a status request for an id of the
\* queue is answered 200 with the job's state, and a request for an unknown
\* id is answered 404.
C17_Original ==
  [][(response' # response /\ StatusAnswer(response')) => Reported(response')]_vars
\* C17, corrected: the state of a job is always one of waiting, active,
\* completed, failed, and a status request is answered either 500 (a call
\* of the queue threw), or as stated: 200 with the state the job has at
\* that moment for an id of the queue, 404 for an unknown id.
C17_Status ==
  /\ [](\A j \in JobIds : jobState[j] \in JobStates)
  /\ [][(response' # response /\ StatusAnswer(response')) =>
          (response'.status = 500 \/ Reported(response'))]_vars
\* the status of job 2 was asked for after it had completed and the answer
\* said so
C17_Witness ==
  /\ StatusAnswer(response)
  /\ response.status = 200
  /\ response.request.job_id = 2
  /\ response.body.status = "completed"
  /\ jobState[2] = "completed"
  /\ jobState[1] = "failed"

\* ---------------------------------------------------------------- C18
\* C18 as the specification states it: a row of "Comment_summary", once
\* created, is in the table unchanged after every step of a job and of an
\* API request, so the rows of a video only grow.
C18_Original == [][\A s \in Summary : s \in Summary']_vars

\* ---------------------------------------------------------------- C19
\* job j calls the classify webhook in this step
CallsClassify(j) ==
  /\ jobs[j].jobType = "classify"
  /\ hist[j].n8n = "none"
  /\ hist'[j].n8n # "none"
\* C19 as the specification states it: the comment_classified_at a classify
\* job sends to n8n is the value the video's row has when the handler makes
\* the call.
C19_Original ==
  [][\A j \in JobIds : CallsClassify(j) => hist'[j].sent = Video[JobVideo(j)]]_vars

\* ---------------------------------------------------------------- C20
\* row r is row b but for its flag
SameButFlag(r, b) == [r EXCEPT !.is_filtered = b.is_filtered] = b
\* C20: at every point of a filter job that runs alone, every row that was
\* stored when the job started, the rows the answer names for the job's
\* video among them, is stored still, once, with the comment_type, text,
\* author name, author id, publish date, is_parent and video id it had: the
\* job has changed at most its is_filtered flag.
C20_OnlyFlag ==
  \A j \in JobIds :
    (jobState[j] = "active" /\ jobs[j].jobType = "filter") =>
      \A b \in RowsOf(hist[j].before) :
        /\ \E r \in CommentRows : SameButFlag(r, b)
        /\ CopiesOf(Comment, b.youtube_comment_id) = 1
\* the handler has returned; the answer names a stored row of the job's
\* video, of type 1 and not filtered before, which is filtered now and of
\* type 1 still
C20_Witness ==
  \E j \in JobIds :
    /\ AtReturn(j, "filter")
    /\ \E b \in RowsOf(hist[j].before), r \in CommentRows :
         /\ b.video_id = JobVideo(j)
         /\ b.youtube_comment_id \in IdsOf(local[j].comments)
         /\ b.comment_type = 1 /\ ~b.is_filtered
         /\ SameButFlag(r, b) /\ r.is_filtered

\* ---------------------------------------------------------------- C21
StoredIds(B) == {r.youtube_comment_id : r \in RowsOf(B)}
\* the entry the loop of job j is at
Entry(j) == local[j].comments[local[j].i]
\* the step after the metadata lookup of a filter job: no row is written, the
\* job stays active and does not throw; with a snippet the handler goes on
\* to the insert, without one to the next entry
C21_Lookup(j) ==
  (pc[j] = "fetch" /\ JobMoves(j)) =>
    /\ Comment' = Comment
    /\ jobState'[j] = "active"
    /\ IF local'[j].item = NoItem
         THEN /\ pc'[j] = FilterNext(local[j].comments, local[j].i + 1)
              /\ local'[j].i = local[j].i + 1
         ELSE /\ pc'[j] = "insert"
              /\ local'[j].item = Snippet(Entry(j).id)
\* a step that stores an external id that was not stored: the handler had
\* the snippet of the entry, and the new row is the entry with that
\* metadata, type 0 and the flag of the answer
C21_Insert(j) ==
  StoredIds(Comment') # StoredIds(Comment) =>
    /\ pc[j] = "insert"
    /\ local[j].item = Snippet(Entry(j).id)
    /\ Entry(j).id \notin StoredIds(Comment)
    /\ \E r \in RowsOf(Comment') :
         /\ Comment' = BagAdd(Comment, r)
         /\ r.youtube_comment_id = Entry(j).id
         /\ r.comment = Entry(j).text
         /\ r.comment_type = 0
         /\ r.is_filtered = (Entry(j).is_filtered = 1)
         /\ r.video_id = JobVideo(j)
         /\ r.author_name = Snippet(Entry(j).id).authorDisplayName
         /\ r.comment_date = Snippet(Entry(j).id).publishedAt
    /\ jobState'[j] = "active"
    /\ pc'[j] = FilterNext(local[j].comments, local[j].i + 1)
\* C21: a filter job stores a new external id only in the insert that
\* follows a metadata lookup that gave a snippet, and the row is the entry
\* of the answer with that metadata, comment_type 0 and is_filtered true
\* exactly when the entry says 1; a lookup that fails or gives no item
\* writes nothing and the loop goes on with the next entry, the job active.
C21_FilterInsert ==
  [][\A j \in JobIds :
       (jobs[j].jobType = "filter" /\ jobState[j] = "active") =>
         (C21_Lookup(j) /\ C21_Insert(j))]_vars
\* the handler has returned from an answer of two new ids: one is stored, of
\* type 0 and filtered as the answer says, the other (its lookup failed) is
\* not stored
C21_Witness ==
  \E j \in JobIds :
    /\ AtReturn(j, "filter")
    /\ hist[j].before = <<>>
    /\ IdsOf(local[j].comments) = {"c1", "c2"}
    /\ StoredIds(Comment) = {"c2"}
    /\ \E r \in CommentRows : r.comment_type = 0 /\ r.is_filtered

\* ---------------------------------------------------------------- C22
Payloads == {Payload(t) : t \in Titles}
RawTexts == {[raw |-> "oops"]}
\* the four ways payload P arrives, and the two ways a text that is no JSON
\* arrives
ShapesOf(P) == {P, Nested(P), Stringify(P), Nested(Stringify(P))}
RawShapesOf(text) == {text, Nested(text)}
\* what is stored for an answer; the titles in NoTitle get the default
C22_Stored(answer, row, NoTitle) ==
  /\ \A P \in Payloads :
       answer \in ShapesOf(P) =>
         /\ row.summary = Stringify(P)
         /\ row.summary_title =
              IF P.summary_title \in NoTitle THEN DefaultTitle
              ELSE P.summary_title
  /\ \A text \in RawTexts :
       answer \in RawShapesOf(text) =>
         /\ row.summary = Stringify([summary_title |-> DefaultTitle,
                                     summary |-> Stringify(text)])
         /\ row.summary_title = DefaultTitle
C22_AtReturn(j, NoTitle) ==
  AtReturn(j, "analysis") =>
    /\ hist[j].answer \in AnalysisData
    /\ \E row \in Summary : /\ hist[j].summaries = {row.id}
                             /\ row.video_id = JobVideo(j)
                             /\ C22_Stored(hist[j].answer, row, NoTitle)
\* the parsing of an answer that holds a payload or a text does not throw;
\* the parsing of an answer that holds null in their place does
C22_Parsed(j) ==
  (jobs[j].jobType = "analysis" /\ hist[j].n8n = "none" /\ hist'[j].n8n = "answered") =>
    /\ jobState'[j] = "active"
    /\ pc'[j] = IF hist'[j].answer \in ShapesOf(Null) THEN "throw" ELSE "ratio"
\* C22 as the specification states it: the stored title is the payload's
\* summary_title, and the default title only when the payload has none.
C22_Original ==
  /\ [](\A j \in JobIds : C22_AtReturn(j, {"undefined"}))
  /\ [][\A j \in JobIds : C22_Parsed(j)]_vars
\* C22, corrected: an analysis job whose handler has returned has stored one
\* row whose summary is the JSON text of the payload and whose title is the
\* payload's summary_title (the default title when the payload has none or
\* has an empty one: every title that `||` takes for false), whether the
\* payload came under `output` or at top level, as an object or as its JSON
\* text; for a text that is no JSON the row holds the JSON text of the
\* wrapper {summary_title: default title, summary: the text, JSON-encoded}
\* and the default title; and no such answer makes the parsing throw: the
\* handler goes on to the ratio and the insert.  Only an answer that holds
\* null in the place of the payload makes it throw, and no row is stored.
C22_Shapes ==
  /\ [](\A j \in JobIds : C22_AtReturn(j, {"undefined", ""}))
  /\ [][\A j \in JobIds : C22_Parsed(j)]_vars
\* a job has stored the payload that came at top level as JSON text with an
\* empty title, after an earlier job stored the wrapper of a text that is no
\* JSON
C22_Witness ==
  \E j \in JobIds :
    /\ AtReturn(j, "analysis")
    /\ hist[j].answer = Stringify(Payload(""))
    /\ \E row \in Summary : row.id \in hist[j].summaries /\ row.summary_title = DefaultTitle
    /\ \E row \in Summary :
         row.summary = Stringify([summary_title |-> DefaultTitle,
                                  summary |-> Stringify([raw |-> "oops"])])

\* ---------------------------------------------------------------- C23
\* C23: in a database whose comments do not change, any two summary rows of
\* a video, stored by two analysis runs whatever n8n answered to each, have
\* the same positive_ratio, and a job about to insert holds the ratio that
\* calculatePositiveRatio gives for the comments stored, whatever its
\* answer was.
C23_RatioFromStore ==
  /\ \A r1, r2 \in Summary : r1.video_id = r2.video_id => r1.positive_ratio = r2.positive_ratio
  /\ \A j \in JobIds :
       Running(j, "analysis", "insert") =>
         local[j].positive_ratio = calculatePositiveRatio(JobVideo(j), Comment)
\* two runs for a video with one positive and one negative comment have got
\* different answers and have stored the same ratio, 50.0
C23_Witness ==
  \E r1, r2 \in Summary :
    /\ r1.video_id = r2.video_id
    /\ r1.summary # r2.summary
    /\ r1.summary_title # r2.summary_title
    /\ r1.positive_ratio = 500
    /\ r2.positive_ratio = 500

\* ---------------------------------------------------------------- C24
\* the entries the loop of job j has gone through, and the ids it has stored
Processed(j) == SubSeq(local[j].comments, 1, local[j].i - 1)
StoredBy(j) == {local[j].results[k] : k \in 1..Len(local[j].results)}
\* job j has thrown in its loop
ThrownInLoop(j, type) == Running(j, type, "throw") /\ hist[j].n8n = "answered"
\* what a filter job that ran alone has written is in the table when its
\* handler has thrown: the rows it inserted, and on every row of its video
\* that an entry before the failing one names, the flag of that entry
C24_Kept(j) ==
  ThrownInLoop(j, "filter") =>
    /\ \A cid \in StoredBy(j) :
         \E r \in CommentRows : /\ r.youtube_comment_id = cid
                                /\ r.video_id = JobVideo(j)
                                /\ r.comment_type = 0
    /\ \A r \in CommentRows :
         (r.video_id = JobVideo(j) /\ r.youtube_comment_id \in IdsOf(Processed(j))) =>
           r.is_filtered = (LastEntry(Processed(j), r.youtube_comment_id).is_filtered = 1)
\* the step in which a handler throws and the step that marks the job
\* failed write no table
C24_NoRollback(j) ==
  ((pc'[j] = "throw" /\ pc[j] # "throw") \/ (jobState'[j] = "failed" /\ jobState[j] # "failed"))
    => Store' = Store
\* C24: when the handler of a classify or filter job throws, the rows the
\* job has inserted and the flags it has set on the entries before the
\* failing one are in "Comment" as the job wrote them, and neither the
\* throw nor the move of the job to failed changes any table.
C24_PartialKept ==
  /\ [](\A j \in JobIds : C24_Kept(j))
  /\ [][\A j \in JobIds : C24_NoRollback(j)]_vars
\* a filter job has thrown at its second entry after it had set the flag of
\* a stored row that was not filtered
C24_Witness ==
  \E j \in JobIds :
    /\ ThrownInLoop(j, "filter")
    /\ local[j].i = 2
    /\ \E b \in RowsOf(hist[j].before), r \in CommentRows :
         /\ ~b.is_filtered /\ r.is_filtered /\ SameButFlag(r, b)
         /\ r.youtube_comment_id = local[j].comments[1].id

\* ---------------------------------------------------------------- C25
\* C25 as the specification states it: no user has more than two rows in
\* "Other_channel", whatever registrations and removals have been handled.
C25_Original == \A u \in Users : Cardinality(CompetitorsOf(u)) <= MaxCompetitors

\* ---------------------------------------------------------------- C26
\* the flags a filter job that runs alone leaves when it returns (C5): the
\* rows of its video that its answer names have the flag of the answer,
\* every other row of the video is not filtered
FlagsOf(j) ==
  \A r \in CommentRows :
    r.video_id = JobVideo(j) =>
      IF r.youtube_comment_id \in IdsOf(local[j].comments)
        THEN r.is_filtered =
               (LastEntry(local[j].comments, r.youtube_comment_id).is_filtered = 1)
        ELSE r.is_filtered = FALSE
BothCompleted(j1, j2) ==
  /\ j1 # j2
  /\ jobs[j1].jobType = "filter" /\ jobs[j2].jobType = "filter"
  /\ JobVideo(j1) = JobVideo(j2)
  /\ jobs[j1].data.filtering_keyword # jobs[j2].data.filtering_keyword
  /\ Ended(j1, "completed") /\ Ended(j2, "completed")
\* C26 as the specification states it: once two filter jobs of one video
\* with different keywords have both completed, the flags of the video's
\* rows are those of the job that ran last in one of the two orders (the
\* flags of one of the two answers), never a mixture of the two answers.
C26_Original ==
  \A j1, j2 \in JobIds :
    BothCompleted(j1, j2) => FlagsOf(j1) \/ FlagsOf(j2)

\* ---------------------------------------------------------------- C27
\* the call of the Classification Service of filter job j has failed
CallFailed(j) == Running(j, "filter", "throw") /\ hist[j].n8n = "rejected"
\* the job leaves the handler as failed and writes nothing on its way
C27_Step(j) ==
  (CallFailed(j) /\ JobMoves(j)) =>
    /\ jobState'[j] = "failed"
    /\ Comment' = Comment
\* C27: when the webhook call of a filter job has failed, table "Comment"
\* is the table the job found with the flags of the video's rows reset:
\* every row of the video has is_filtered = false, whatever it was before;
\* the job then ends failed without restoring any flag.
C27_ResetStays ==
  /\ [](\A j \in JobIds :
         CallFailed(j) =>
           /\ Comment = ResetFiltered(hist[j].before, JobVideo(j))
           /\ \A r \in CommentRows : r.video_id = JobVideo(j) => ~r.is_filtered)
  /\ [][\A j \in JobIds : C27_Step(j)]_vars
\* the call of a job has failed whose video had a filtered row before
C27_Witness ==
  \E j \in JobIds :
    /\ CallFailed(j)
    /\ \E r \in RowsOf(hist[j].before) : r.video_id = JobVideo(j) /\ r.is_filtered
    /\ \E r \in CommentRows : r.video_id = JobVideo(j)

\* ---------------------------------------------------------------- C28
\* classify job j has returned and has skipped a comment of the answer (its
\* metadata lookup gave nothing or its upsert threw)
SkippedSome(j) ==
  /\ AtReturn(j, "classify")
  /\ \E cid \in IdsOf(local[j].comments) :
       \A k \in 1..Len(local[j].results) : local[j].results[k] # cid
\* C28 as the specification states it: when a classify job has skipped a
\* comment that the answer held, the watermark of its video after the job
\* is not later than the watermark the job sent, so that the next request
\* still covers the skipped comment.
C28_Original ==
  \A j \in JobIds :
    SkippedSome(j) => Video[JobVideo(j)] <= hist[j].sent

\* ---------------------------------------------------------------- C29
\* the job a status answer is about was enqueued for the video of the path
\* by the enqueue endpoint of the type of the path
OwnJob(r) ==
  /\ r.request.job_id \in JobIds
  /\ jobs[r.request.job_id].videoId = r.request.video_id
  /\ jobs[r.request.job_id].jobType = r.request.type
\* C29 as the specification states it: a status request is answered 200
\* only for a job of the video and of the job type of its path, with the
\* video the job works on as video_id; a request that did not throw and
\* names a job of another video or another type is answered 404.
C29_Original ==
  [][(response' # response /\ StatusAnswer(response')) =>
       /\ response'.status = 200 =>
            /\ OwnJob(response')
            /\ response'.body.video_id = jobs[response'.request.job_id].videoId
       /\ (response'.status # 500 /\ ~OwnJob(response')) => response'.status = 404]_vars

\* ---------------------------------------------------------------- C30
\* the upsert of classify job j for the comment its loop is at: when the
\* statement has stored the comment, the comment's row is not filtered,
\* and every row of another comment is what it was
C30_Step(j) ==
  (Running(j, "classify", "upsert") /\ JobMoves(j)) =>
    /\ Len(local'[j].results) > Len(local[j].results) =>
         /\ \E r \in RowsOf(Comment') : r.youtube_comment_id = Entry(j).id
         /\ \A r \in RowsOf(Comment') :
              r.youtube_comment_id = Entry(j).id => ~r.is_filtered
    /\ \A b \in RowsOf(Comment) :
         b.youtube_comment_id # Entry(j).id =>
           b \in RowsOf(Comment') /\ Comment'[b] = Comment[b]
\* C30: every row a classify job inserts or updates is not filtered after
\* the upsert, also when it was stored as filtered before; at every point
\* of a classify job that runs alone, the rows that were stored when it
\* started and that its answer does not name are stored unchanged, their
\* flag included, and only the upsert writes to "Comment".
C30_UpsertClearsFlag ==
  /\ [](\A j \in JobIds :
         (jobState[j] = "active" /\ jobs[j].jobType = "classify") =>
           \A b \in RowsOf(hist[j].before) :
             b.youtube_comment_id \notin IdsOf(local[j].comments) =>
               b \in CommentRows /\ Comment[b] = hist[j].before[b])
  /\ [][\A j \in JobIds :
          /\ C30_Step(j)
          /\ (jobs[j].jobType = "classify" /\ pc[j] # "upsert" /\ JobMoves(j)) =>
               Comment' = Comment]_vars
\* a classify job has returned; a row that was filtered before and that the
\* job upserted is not filtered now, and a filtered row that the answer
\* does not name is filtered still
C30_Witness ==
  \E j \in JobIds :
    /\ AtReturn(j, "classify")
    /\ \E b \in RowsOf(hist[j].before), r \in CommentRows :
         /\ b.is_filtered /\ ~r.is_filtered
         /\ r.youtube_comment_id = b.youtube_comment_id
         /\ \E k \in 1..Len(local[j].results) : local[j].results[k] = b.youtube_comment_id
    /\ \E b \in RowsOf(hist[j].before) :
         /\ b.is_filtered /\ b \in CommentRows
         /\ b.youtube_comment_id \notin IdsOf(local[j].comments)

====
